---- MODULE Spec2Model ----
(***************************************************************************)
(* A model of the CREST instrumentation pass (cil/src/ext/                 *)
(* crestInstrument.ml): the persistent counters, the branch/CFG recorder,  *)
(* the normalization of conditionals and the instrumentation visitor.      *)
(*                                                                         *)
(* A C translation unit is a sequence of function definitions; a function  *)
(* body is a sequence of statements; expressions and lvalues are CIL       *)
(* trees.  Every tree node is a record with the same fields, so that any   *)
(* two nodes can be compared.                                              *)
(***************************************************************************)
EXTENDS Integers, Sequences, FiniteSets, TLC

(***************************************************************************)
(* C types, as far as the pass looks at them (after unrollType).           *)
(*   t     : the CIL constructor                                           *)
(*   ik    : the integer kind of a TInt                                    *)
(*   size  : sizeof the type                                               *)
(*   bsize : sizeof the pointed-to / element type of a TPtr or TArray      *)
(***************************************************************************)
Ty(t, ik, size, bsize) == [t |-> t, ik |-> ik, size |-> size, bsize |-> bsize]

intType    == Ty("TInt", "IInt", 4, 0)
uintType   == Ty("TInt", "IUInt", 4, 0)
charType   == Ty("TInt", "IChar", 1, 0)
ulongType  == Ty("TInt", "IULong", 8, 0)
enumType   == Ty("TEnum", "", 4, 0)
intPtrType == Ty("TPtr", "", 8, 4)
compType   == Ty("TComp", "", 8, 0)
compPtrType == Ty("TPtr", "", 8, 8)
arrayType  == Ty("TArray", "", 16, 4)
floatType  == Ty("TFloat", "", 8, 0)
voidType   == Ty("TVoid", "", 0, 0)

addrType     == ulongType
valType      == Ty("TInt", "ILongLong", 8, 0)
typeOfSizeOf == ulongType

(***************************************************************************)
(* CIL expressions and lvalues.                                            *)
(*   exp  : k in Const | Lval | UnOp | BinOp | CastE | AddrOf | StartOf    *)
(*               | SizeOf                                                  *)
(*   lval : host Var name or Mem e, and a sequence of offsets              *)
(*   offset : k in Field | Index; a Field may be a bit-field               *)
(***************************************************************************)
Node(k, op, ty, n, lv, kids) ==
    [k |-> k, op |-> op, ty |-> ty, n |-> n, lv |-> lv, kids |-> kids]

\* An lvalue: host Var name (of type hty) or Mem e (e of type pointer to
\* hty), and offsets; each offset carries the type of the lvalue it yields.
LvalOf(host, name, mem, off, hty) ==
    [host |-> host, name |-> name, mem |-> mem, off |-> off, hty |-> hty]
Var(name, ty) == LvalOf("Var", name, <<>>, <<>>, ty)
Mem(e, ty)    == LvalOf("Mem", "", <<e>>, <<>>, ty)
Field(name, bitfield, ty) ==
    [k |-> "Field", name |-> name, bitfield |-> bitfield, idx |-> <<>>, ty |-> ty]
Index(e, ty) ==
    [k |-> "Index", name |-> "", bitfield |-> FALSE, idx |-> <<e>>, ty |-> ty]
NoOffset ==
    [k |-> "NoOffset", name |-> "", bitfield |-> FALSE, idx |-> <<>>, ty |-> voidType]
AddOffset(lv, o) == [lv EXCEPT !.off = Append(@, o)]

typeOfLval(lv) == IF lv.off = <<>> THEN lv.hty ELSE lv.off[Len(lv.off)].ty
typeOf(e) == e.ty
isPointerType(ty) == ty.t = "TPtr"

Const(ty, n)          == Node("Const", "", ty, n, <<>>, <<>>)
Lval(lv)              == Node("Lval", "", typeOfLval(lv), 0, <<lv>>, <<>>)
UnOp(op, e, ty)       == Node("UnOp", op, ty, 0, <<>>, <<e>>)
BinOp(op, e1, e2, ty) == Node("BinOp", op, ty, 0, <<>>, <<e1, e2>>)
CastE(ty, e)          == Node("CastE", "", ty, 0, <<>>, <<e>>)
SizeOf(ty)            == Node("SizeOf", "", typeOfSizeOf, ty.size, <<>>, <<>>)
AddrOf(lv) ==
    Node("AddrOf", "", Ty("TPtr", "", 8, typeOfLval(lv).size), 0, <<lv>>, <<>>)
StartOf(lv) ==
    Node("StartOf", "", Ty("TPtr", "", 8, typeOfLval(lv).bsize), 0, <<lv>>, <<>>)

zero == Const(intType, 0)
one  == Const(intType, 1)

\* mkAddrOrStartOf: StartOf for an array, AddrOf otherwise
addressOf(lv) == IF typeOfLval(lv).t = "TArray" THEN StartOf(lv) ELSE AddrOf(lv)

\* removeOffsetLval: the lvalue without its last offset, and that offset
lastOffset(lv) == IF lv.off = <<>> THEN NoOffset ELSE lv.off[Len(lv.off)]
removeOffsetLval(lv) ==
    IF lv.off = <<>> THEN lv ELSE [lv EXCEPT !.off = SubSeq(@, 1, Len(@) - 1)]

(***************************************************************************)
(* Predicates of the pass on types, lvalues and expressions.               *)
(***************************************************************************)
isSymbolicType(ty) == ty.t \in {"TInt", "TPtr", "TEnum"}

\* hasAddress: no bit-field among the offsets
hasAddress(lv) == \A i \in 1..Len(lv.off) : ~lv.off[i].bitfield

\* isSymbolicLvalue: a Mem host, or an Index among the offsets of a Var
isSymbolicLvalue(lv) ==
    \/ lv.host = "Mem"
    \/ \E i \in 1..Len(lv.off) : lv.off[i].k = "Index"

\* Cil.isConstant, as the emission rules use it: a literal constant
isConstant(e) == e.k = "Const"

isCompareOp(op) == op \in {"Eq", "Ne", "Lt", "Gt", "Le", "Ge"}

isPointerOp(op) == op \in {"PlusPI", "IndexPI", "MinusPI", "MinusPP"}

unaryOpCode(op) ==
    CASE op = "Neg" -> 19 [] op = "BNot" -> 20 [] op = "LNot" -> 21

castOp == 22

binaryOpCode(op) ==
    CASE op = "PlusA" -> 0    [] op = "MinusA" -> 1   [] op = "Mult" -> 2
      [] op = "Div" -> 3      [] op = "Mod" -> 4      [] op = "BAnd" -> 5
      [] op = "BOr" -> 6      [] op = "BXor" -> 7     [] op = "Shiftlt" -> 8
      [] op = "Shiftrt" -> 9  [] op = "LAnd" -> 10    [] op = "LOr" -> 11
      [] op = "Eq" -> 12      [] op = "Ne" -> 13      [] op = "Gt" -> 14
      [] op = "Le" -> 15      [] op = "Lt" -> 16      [] op = "Ge" -> 17
      [] OTHER -> 18

(***************************************************************************)
(* Arguments of an emitted runtime call.  An argument is an integer        *)
(* literal (a = "integer"), or a C expression under a cast (a = "toAddr",  *)
(* "toValue", "toValuePtr").  toType on a type outside its table raises    *)
(* invalid_arg: that argument is a = "invalid_arg".                        *)
(***************************************************************************)
Arg(a, n, e) == [a |-> a, n |-> n, e |-> e]
integer(n) == Arg("integer", n, <<>>)
toAddr(e)  == Arg("toAddr", 0, <<e>>)
toValue(e) ==
    IF isPointerType(typeOf(e)) THEN Arg("toValuePtr", 0, <<e>>)
    ELSE Arg("toValue", 0, <<e>>)
sizeOf(ty) == integer(ty.size)
noAddr == zero

toType(ty) ==
    CASE ty.t = "TInt" /\ ty.ik = "IUChar"     -> integer(0)
      [] ty.t = "TInt" /\ ty.ik = "ISChar"     -> integer(1)
      [] ty.t = "TInt" /\ ty.ik = "IChar"      -> integer(1)
      [] ty.t = "TInt" /\ ty.ik = "IUShort"    -> integer(2)
      [] ty.t = "TInt" /\ ty.ik = "IShort"     -> integer(3)
      [] ty.t = "TInt" /\ ty.ik = "IUInt"      -> integer(4)
      [] ty.t = "TInt" /\ ty.ik = "IInt"       -> integer(5)
      [] ty.t = "TInt" /\ ty.ik = "IULong"     -> integer(6)
      [] ty.t = "TInt" /\ ty.ik = "ILong"      -> integer(7)
      [] ty.t = "TInt" /\ ty.ik = "IULongLong" -> integer(8)
      [] ty.t = "TInt" /\ ty.ik = "ILongLong"  -> integer(9)
      [] ty.t = "TPtr"                         -> integer(6)
      [] ty.t = "TEnum"                        -> integer(5)
      [] ty.t = "TArray"                       -> integer(10)
      [] ty.t = "TComp"                        -> integer(10)
      [] OTHER                                 -> Arg("invalid_arg", 0, <<>>)

\* the value in every case
loadVal_value(ty, v) == toValue(v)
loadVal(ty, v) == IF isSymbolicType(ty) THEN toValue(v) ELSE sizeOf(ty)

(***************************************************************************)
(* The instrumentation-id counter and the emitted calls.  idCount is       *)
(* passed in and the call carries getNewId(idCount); whoever builds a call *)
(* continues with that id as the counter.                                  *)
(***************************************************************************)
getNewId(idCount) == idCount + 1

\* mkInstFunc: the declaration of the runtime function __Crest<name>, with
\* the attribute that keeps the visitor from instrumenting calls to it
mkInstFunc(name) == [vname |-> name, crest_skip |-> TRUE]

mkInstCall(func, idCount, args) ==
    [fn |-> func.vname, skip |-> func.crest_skip, id |-> getNewId(idCount),
     args |-> args]

mkLoad(c, addr, ty, v)  == mkInstCall(mkInstFunc("Load"), c, <<toAddr(addr), toType(ty), loadVal(ty, v)>>)
\* the dereference built as a load
mkDeref_asLoad(c, addr, ty, v) == mkInstCall(mkInstFunc("Load"), c, <<toAddr(addr), toType(ty), loadVal(ty, v)>>)
mkDeref(c, addr, ty, v) == mkInstCall(mkInstFunc("Deref"), c, <<toAddr(addr), toType(ty), loadVal(ty, v)>>)
mkStore(c, addr)        == mkInstCall(mkInstFunc("Store"), c, <<toAddr(addr)>>)
mkWrite(c, addr)        == mkInstCall(mkInstFunc("Write"), c, <<toAddr(addr)>>)
mkClearStack(c)         == mkInstCall(mkInstFunc("ClearStack"), c, <<>>)
mkCast(c, ty, v)        == mkInstCall(mkInstFunc("Apply1"), c, <<integer(castOp), toType(ty), toValue(v)>>)
mkApply1(c, op, ty, v)  == mkInstCall(mkInstFunc("Apply1"), c, <<integer(unaryOpCode(op)), toType(ty), toValue(v)>>)
mkApply2(c, op, ty, v)  == mkInstCall(mkInstFunc("Apply2"), c, <<integer(binaryOpCode(op)), toType(ty), toValue(v)>>)
mkPtrApply2(c, op, sz, v) == mkInstCall(mkInstFunc("PtrApply2"), c, <<integer(binaryOpCode(op)), sz, toValue(v)>>)
mkBranch(c, bid, b)     == mkInstCall(mkInstFunc("Branch"), c, <<integer(bid), integer(b)>>)
mkCall(c, fid)          == mkInstCall(mkInstFunc("Call"), c, <<integer(fid)>>)
mkReturn(c)             == mkInstCall(mkInstFunc("Return"), c, <<>>)
mkHandleReturn(c, ty, v) == mkInstCall(mkInstFunc("HandleReturn"), c, <<toType(ty), loadVal(ty, v)>>)

(***************************************************************************)
(* The emitted calls are built as OCaml lists.  Each call draws its id     *)
(* when it is built, so the ids follow the order of evaluation: `;` and    *)
(* let evaluate in order, while the operands of `@` and the elements of a  *)
(* list literal are evaluated in an order the language leaves unspecified  *)
(* (right to left in ocamlc and ocamlopt).  ord is that order: "RL" or     *)
(* "LR".  A piece of code that builds calls is an operator from the        *)
(* counter before it to [calls, id]: the calls in list order and the       *)
(* counter after it.                                                       *)
(***************************************************************************)
EvalOrders == {"RL", "LR"}

R(calls, id) == [calls |-> calls, id |-> id]

\* [mk]
One(c, Mk(_)) == R(<<Mk(c)>>, getNewId(c))

\* a ; b, the lists appended in that order
CatLR(r1, r2) == R(r1.calls \o r2.calls, r2.id)
ThenLR(r1, B(_)) ==
    LET r2 == B(r1.id)
    IN  [calls |-> r1.calls \o r2.calls, id |-> r2.id]

\* the pieces of a list, rs holding their results in the order in which
\* they were evaluated: the calls in list order, the counter after the last
Pieces2(ord, rs) ==
    [calls |-> IF ord = "RL" THEN rs[2].calls \o rs[1].calls
               ELSE rs[1].calls \o rs[2].calls,
     id |-> rs[2].id]
Pieces3(ord, rs) ==
    [calls |-> IF ord = "RL" THEN rs[3].calls \o rs[2].calls \o rs[1].calls
               ELSE rs[1].calls \o rs[2].calls \o rs[3].calls,
     id |-> rs[3].id]

\* a @ b
Cat(ord, c, A(_), B(_)) ==
    IF ord = "RL"
    THEN LET r2 == B(c)
             r1 == A(r2.id)
         IN  Pieces2(ord, <<r2, r1>>)
    ELSE LET r1 == A(c)
             r2 == B(r1.id)
         IN  Pieces2(ord, <<r1, r2>>)

\* a @ b @ d
Cat3(ord, c, A(_), B(_), D(_)) ==
    IF ord = "RL"
    THEN LET r3 == D(c)
             r2 == B(r3.id)
             r1 == A(r2.id)
         IN  Pieces3(ord, <<r3, r2, r1>>)
    ELSE LET r1 == A(c)
             r2 == B(r1.id)
             r3 == D(r2.id)
         IN  Pieces3(ord, <<r1, r2, r3>>)

\* [mk1; mk2]
List2(ord, c, Mk1(_), Mk2(_)) ==
    IF ord = "RL" THEN R(<<Mk1(getNewId(c)), Mk2(c)>>, getNewId(getNewId(c)))
    ELSE R(<<Mk1(c), Mk2(getNewId(c))>>, getNewId(getNewId(c)))

\* the offset between a field and its enclosing lvalue: cExp "&lv1 - &lv2"
fieldOff(lv) == Node("FieldOff", "", typeOfSizeOf, 0, <<lv>>, <<>>)

RECURSIVE instrumentLvalueAddr(_, _, _)
RECURSIVE instrumentExpr(_, _, _)

instrumentLvalueAddr(lv, c, ord) ==
    CASE lastOffset(lv).k = "NoOffset" ->
           IF lv.host = "Var"
           THEN One(c, LAMBDA k : mkLoad(k, noAddr, typeOf(addressOf(lv)), addressOf(lv)))
           ELSE instrumentExpr(lv.mem[1], c, ord)
      [] lastOffset(lv).k = "Index" ->
           Cat3(ord, c,
                LAMBDA k : instrumentLvalueAddr(removeOffsetLval(lv), k, ord),
                LAMBDA k : instrumentExpr(lastOffset(lv).idx[1], k, ord),
                LAMBDA k : One(k, LAMBDA i : mkPtrApply2(i, "IndexPI",
                                    sizeOf(typeOfLval(lv)), addressOf(lv))))
      [] lastOffset(lv).k = "Field" ->
           Cat(ord, c,
               LAMBDA k : instrumentLvalueAddr(removeOffsetLval(lv), k, ord),
               LAMBDA k : List2(ord, k,
                   LAMBDA j : mkLoad(j, noAddr, typeOfSizeOf, fieldOff(lv)),
                   LAMBDA j : mkPtrApply2(j, "IndexPI", integer(1), addressOf(lv))))

\* the operands taken in the wrong order
instrumentBinOp_e2First(e, c, ord) ==
    Cat3(ord, c,
         LAMBDA k : instrumentExpr(e.kids[2], k, ord),
         LAMBDA k : instrumentExpr(e.kids[1], k, ord),
         LAMBDA k : One(k, LAMBDA i : mkApply2(i, e.op, typeOf(e), e)))
\* (instrumentExpr e1) @ (instrumentExpr e2) @ [mkApply2 op ty e]
instrumentBinOp(e, c, ord) ==
    Cat3(ord, c,
         LAMBDA k : instrumentExpr(e.kids[1], k, ord),
         LAMBDA k : instrumentExpr(e.kids[2], k, ord),
         LAMBDA k : One(k, LAMBDA i : mkApply2(i, e.op, typeOf(e), e)))

instrumentExpr(e, c, ord) ==
    IF isConstant(e) THEN One(c, LAMBDA k : mkLoad(k, noAddr, typeOf(e), e))
    ELSE CASE e.k = "Lval" /\ hasAddress(e.lv[1]) ->
           IF isSymbolicLvalue(e.lv[1])
           THEN Cat(ord, c,
                    LAMBDA k : instrumentLvalueAddr(e.lv[1], k, ord),
                    LAMBDA k : One(k, LAMBDA j : mkDeref(j, addressOf(e.lv[1]), typeOf(e), e)))
           ELSE One(c, LAMBDA k : mkLoad(k, addressOf(e.lv[1]), typeOf(e), e))
      [] e.k = "UnOp" ->
           Cat(ord, c,
               LAMBDA k : instrumentExpr(e.kids[1], k, ord),
               LAMBDA k : One(k, LAMBDA j : mkApply1(j, e.op, typeOf(e), e)))
      [] e.k = "BinOp" /\ isPointerOp(e.op) ->
           Cat3(ord, c,
                LAMBDA k : instrumentExpr(e.kids[1], k, ord),
                LAMBDA k : instrumentExpr(e.kids[2], k, ord),
                LAMBDA k : One(k, LAMBDA i : mkPtrApply2(i, e.op,
                                    integer(typeOf(e.kids[1]).bsize), e)))
      [] e.k = "BinOp" /\ ~isPointerOp(e.op) -> instrumentBinOp(e, c, ord)
      [] e.k = "CastE" ->
           Cat(ord, c,
               LAMBDA k : instrumentExpr(e.kids[1], k, ord),
               LAMBDA k : One(k, LAMBDA j : mkCast(j, typeOf(e), e)))
      [] e.k \in {"AddrOf", "StartOf"} ->
           instrumentLvalueAddr(e.lv[1], c, ord)
      [] OTHER -> One(c, LAMBDA k : mkLoad(k, noAddr, typeOf(e), e))

(***************************************************************************)
(* Statements, instructions, functions and files.                          *)
(*   stmt  : k in Instr | If | Return; sid is the CFG statement id (0      *)
(*           before the CFG is computed); succs the CFG successors         *)
(*   instr : k in Set | Call | Asm.  A Call names its callee (direct) and  *)
(*           whether the callee carries the crest_skip attribute           *)
(***************************************************************************)
Stmt(k, instrs, e, b1, b2) ==
    [k |-> k, sid |-> 0, succs |-> <<>>, instrs |-> instrs, e |-> e,
     b1 |-> b1, b2 |-> b2]
InstrS(is)     == Stmt("Instr", is, <<>>, <<>>, <<>>)
If(e, b1, b2)  == Stmt("If", <<>>, <<e>>, b1, b2)
Return(e)      == Stmt("Return", <<>>, e, <<>>, <<>>)
mkEmptyStmt    == InstrS(<<>>)

Instr(k, lv, e, f, direct, fskip, args) ==
    [k |-> k, lv |-> lv, e |-> e, f |-> f, direct |-> direct, fskip |-> fskip,
     args |-> args]
Set(lv, e)            == Instr("Set", <<lv>>, <<e>>, "", FALSE, FALSE, <<>>)
CallI(ret, f, fskip, args) == Instr("Call", ret, <<>>, f, TRUE, fskip, args)
CallPtr(ret, args)    == Instr("Call", ret, <<>>, "", FALSE, FALSE, args)
Asm                   == Instr("Asm", <<>>, <<>>, "", FALSE, FALSE, <<>>)

\* a function definition: svar attributes, formals and body
Fundec(name, skip, varargs, static, formals, body) ==
    [name |-> name, skip |-> skip, varargs |-> varargs, static |-> static,
     formals |-> formals, body |-> body]
Formal(name, ty) == [name |-> name, ty |-> ty]

\* a global variable: GVar (a definition) or GVarDecl (a declaration)
Global(name, ty, k, extern, complete) ==
    [name |-> name, ty |-> ty, k |-> k, extern |-> extern, complete |-> complete]

File(funs, globals) == [funs |-> funs, globals |-> globals]

\* the varinfo of the function a direct call names
callee(i) == [name |-> i.f, skip |-> i.fskip]

\* a pass that enters every function
shouldSkipFunction_never(f) == FALSE
shouldSkipFunction(f) == f.skip

(***************************************************************************)
(* Tokens of the instrumented code.  The output of the visitor is the      *)
(* transformed function body, flattened: the emitted runtime calls (as     *)
(* built by mkInstCall) between tokens that stand for the original         *)
(* statements: if/then/else/endif around the two blocks of an If, return,  *)
(* and orig for an original instruction (the n-th of statement sid).       *)
(***************************************************************************)
Tok(fn, sid, n) == [fn |-> fn, skip |-> FALSE, id |-> sid, args |-> <<integer(n)>>]

RuntimeFns ==
    {"Load", "LoadAggr", "Deref", "Store", "Write", "ClearStack", "Apply1",
     "Apply2", "PtrApply2", "Branch", "Call", "Return", "HandleReturn",
     "Init", "RegGlobal"}
IsRuntimeCall(t) == t.fn \in RuntimeFns

(***************************************************************************)
(* normalizeConditionalsVisitor: every If gets two non-empty blocks and a  *)
(* condition in predicate form.                                            *)
(***************************************************************************)
negateCompareOp(op) ==
    CASE op = "Eq" -> "Ne" [] op = "Ne" -> "Eq"
      [] op = "Lt" -> "Ge" [] op = "Ge" -> "Lt"
      [] op = "Le" -> "Gt" [] op = "Gt" -> "Le"

RECURSIVE mkPredicate(_, _)
mkPredicate(e, negated) ==
    CASE e.k = "UnOp" /\ e.op = "LNot" -> mkPredicate(e.kids[1], ~negated)
      [] e.k = "BinOp" /\ isCompareOp(e.op) ->
           IF negated
           THEN BinOp(negateCompareOp(e.op), e.kids[1], e.kids[2], e.ty)
           ELSE e
      [] OTHER ->
           BinOp(IF negated THEN "Eq" ELSE "Ne", e, zero, intType)

RECURSIVE normalizeBlock(_)
normalizeStmt(s) ==
    IF s.k = "If"
    THEN LET b1 == IF s.b1 = <<>> THEN <<mkEmptyStmt>> ELSE s.b1
             b2 == IF s.b2 = <<>> THEN <<mkEmptyStmt>> ELSE s.b2
         IN  [s EXCEPT !.e = <<mkPredicate(s.e[1], FALSE)>>,
                       !.b1 = normalizeBlock(b1),
                       !.b2 = normalizeBlock(b2)]
    ELSE s
normalizeBlock(b) ==
    IF b = <<>> THEN <<>>
    ELSE <<normalizeStmt(Head(b))>> \o normalizeBlock(Tail(b))

normalizeConditionals(file) ==
    [file EXCEPT !.funs =
        [i \in 1..Len(file.funs) |->
            [file.funs[i] EXCEPT !.body = normalizeBlock(@)]]]

(***************************************************************************)
(* Cfg.clearFileCFG and Cfg.computeFileCFG.  Statement ids are drawn from  *)
(* Cfg.start_id, which stmtCount aliases: the statements of the file get   *)
(* the ids stmtCount+1, stmtCount+2, ... in program order, and the counter *)
(* ends at the last id given.                                              *)
(***************************************************************************)
RECURSIVE cfgBlock(_, _)
cfgStmt(s, n) ==
    IF s.k = "If"
    THEN LET r1 == cfgBlock(s.b1, n + 1)
             r2 == cfgBlock(s.b2, r1.n)
         IN  [s |-> [s EXCEPT !.sid = n + 1, !.b1 = r1.stmts, !.b2 = r2.stmts],
              n |-> r2.n]
    ELSE [s |-> [s EXCEPT !.sid = n + 1], n |-> n + 1]
cfgBlock(b, n) ==
    IF b = <<>> THEN [stmts |-> <<>>, n |-> n]
    ELSE LET h == cfgStmt(Head(b), n)
             t == cfgBlock(Tail(b), h.n)
         IN  [stmts |-> <<h.s>> \o t.stmts, n |-> t.n]

\* the successors: the next statement, or the first statements of the
\* two blocks of an If; next = 0 when control leaves the function
firstSid(b, next) == IF b = <<>> THEN next ELSE b[1].sid
sidSeq(n) == IF n = 0 THEN <<>> ELSE <<n>>
RECURSIVE succBlock(_, _)
succStmt(s, next) ==
    CASE s.k = "If" ->
           [s EXCEPT !.succs = sidSeq(firstSid(s.b1, next)) \o sidSeq(firstSid(s.b2, next)),
                     !.b1 = succBlock(s.b1, next),
                     !.b2 = succBlock(s.b2, next)]
      [] s.k = "Return" -> s
      [] OTHER -> [s EXCEPT !.succs = sidSeq(next)]
succBlock(b, next) ==
    IF b = <<>> THEN <<>>
    ELSE <<succStmt(Head(b), firstSid(Tail(b), next))>> \o succBlock(Tail(b), next)

RECURSIVE cfgFuns(_, _)
cfgFuns(funs, n) ==
    IF funs = <<>> THEN [funs |-> <<>>, n |-> n]
    ELSE LET r == cfgBlock(Head(funs).body, n)
             t == cfgFuns(Tail(funs), r.n)
         IN  [funs |-> <<[Head(funs) EXCEPT !.body = succBlock(r.stmts, 0)]>> \o t.funs,
              n |-> t.n]

\* the file with its CFG, and the statement counter after it
computeFileCFG(file, stmtCount) ==
    LET r == cfgFuns(file.funs, stmtCount)
    IN  [file |-> [file EXCEPT !.funs = r.funs], stmtCount |-> r.n]

\* every statement of a block, in the visitor's order
RECURSIVE allStmts(_)
allStmts(b) ==
    IF b = <<>> THEN <<>>
    ELSE LET s == Head(b)
         IN  <<s>> \o (IF s.k = "If" THEN allStmts(s.b1) \o allStmts(s.b2) ELSE <<>>)
                 \o allStmts(Tail(b))

RECURSIVE fileStmts(_)
fileStmts(funs) ==
    IF funs = <<>> THEN <<>>
    ELSE allStmts(Head(funs).body) \o fileStmts(Tail(funs))

(***************************************************************************)
(* The CFG recorder: the lines of cfg and cfg_func_map that one pass adds. *)
(***************************************************************************)
\* buildFirstStmtIdMap: List.hd of each function body (fails on an empty one)
hasEmptyBody(file) == \E i \in 1..Len(file.funs) : file.funs[i].body = <<>>
buildFirstStmtIdMap(file) ==
    [i \in 1..Len(file.funs) |->
        [name |-> file.funs[i].name, sid |-> file.funs[i].body[1].sid,
         static |-> file.funs[i].static]]

\* writeCfgCall: the callee's first statement id if the file defines it,
\* its name otherwise
writeCfgCall(f, map) ==
    IF \E j \in 1..Len(map) : map[j].name = f
    THEN [sid |-> map[CHOOSE j \in 1..Len(map) : map[j].name = f].sid, name |-> ""]
    ELSE [sid |-> 0, name |-> f]

cfgLine(s, map) ==
    LET calls == SelectSeq(s.instrs, LAMBDA i : i.k = "Call" /\ i.direct)
    IN  [sid |-> s.sid, succs |-> s.succs,
         calls |-> [j \in 1..Len(calls) |-> writeCfgCall(calls[j].f, map)]]

writeCfg(file, map) ==
    LET ss == fileStmts(file.funs)
    IN  [i \in 1..Len(ss) |-> cfgLine(ss[i], map)]

writeFirstStmtIdMap(map) ==
    LET ns == SelectSeq(map, LAMBDA m : ~m.static)
    IN  [i \in 1..Len(ns) |-> [name |-> ns[i].name, sid |-> ns[i].sid]]

(***************************************************************************)
(* crestInstrumentVisitor.  The visitor state is the id counter and the    *)
(* branch pairs of the current function (newest first); each method        *)
(* returns the tokens it leaves in the code and the state after it.        *)
(***************************************************************************)
\* the pair recorded false branch first
addBranchPair_swapped(bp, curBranches) == <<(<<bp[2], bp[1]>>)>> \o curBranches
addBranchPair(bp, curBranches) == <<bp>> \o curBranches

\* the arguments taken last to first
RECURSIVE concatMapInstrumentExpr_rev(_, _, _)
concatMapInstrumentExpr_rev(es, c, ord) ==
    IF es = <<>> THEN R(<<>>, c)
    ELSE ThenLR(instrumentExpr(es[Len(es)], c, ord),
                LAMBDA k : concatMapInstrumentExpr_rev(SubSeq(es, 1, Len(es) - 1), k, ord))
\* concatMap instrumentExpr: the arguments in order, left to right
RECURSIVE concatMapInstrumentExpr(_, _, _)
concatMapInstrumentExpr(es, c, ord) ==
    IF es = <<>> THEN R(<<>>, c)
    ELSE ThenLR(instrumentExpr(Head(es), c, ord),
                LAMBDA k : concatMapInstrumentExpr(Tail(es), k, ord))

\* ChangeTo [i; mkHandleReturn ...; mkStore ...]
changeToHandleReturn(orig, lv, c, ord) ==
    CatLR(R(<<orig>>, c),
          List2(ord, c,
                LAMBDA k : mkHandleReturn(k, typeOfLval(lv), Lval(lv)),
                LAMBDA k : mkStore(k, addressOf(lv))))

\* vinst on the instruction i, which the token orig stands for
vinst(i, orig, c, ord) ==
    CASE i.k = "Set" /\ hasAddress(i.lv[1]) ->
           IF isSymbolicLvalue(i.lv[1])
           THEN ThenLR(ThenLR(ThenLR(instrumentLvalueAddr(i.lv[1], c, ord),
                                     LAMBDA k : instrumentExpr(i.e[1], k, ord)),
                              LAMBDA k : One(k, LAMBDA j : mkWrite(j, addressOf(i.lv[1])))),
                       LAMBDA k : R(<<orig>>, k))
           ELSE ThenLR(ThenLR(instrumentExpr(i.e[1], c, ord),
                              LAMBDA k : One(k, LAMBDA j : mkStore(j, addressOf(i.lv[1])))),
                       LAMBDA k : R(<<orig>>, k))
      [] i.k = "Call" /\ i.direct /\ shouldSkipFunction(callee(i)) -> R(<<orig>>, c)
      [] i.k = "Call" /\ ~(i.direct /\ shouldSkipFunction(callee(i))) ->
           ThenLR(concatMapInstrumentExpr(
                      SelectSeq(i.args, LAMBDA e : isSymbolicType(typeOf(e))), c, ord),
                  LAMBDA k :
                      IF /\ i.lv # <<>>
                         /\ isSymbolicType(typeOfLval(i.lv[1]))
                         /\ hasAddress(i.lv[1])
                      THEN changeToHandleReturn(orig, i.lv[1], k, ord)
                      ELSE R(<<orig, mkClearStack(k)>>, getNewId(k)))
      [] OTHER -> R(<<orig>>, c)

\* vinst on a call the visitor itself has put at the head of a block (the
\* visitor goes on into the block it has changed): its arguments are the
\* id and the casts that mkInstCall was given
argExp(a) ==
    CASE a.a = "integer" -> Const(intType, a.n)
      [] a.a = "toAddr" -> CastE(addrType, a.e[1])
      [] a.a = "toValue" -> CastE(valType, a.e[1])
      [] a.a = "toValuePtr" -> CastE(valType, CastE(addrType, a.e[1]))
      [] OTHER -> zero
vinstPrepended(call, c, ord) ==
    vinst(CallI(<<>>, call.fn, call.skip,
                <<Const(intType, call.id)>> \o [n \in 1..Len(call.args) |-> argExp(call.args[n])]),
          call, c, ord)
RECURSIVE vinstPrependedList(_, _, _)
vinstPrependedList(calls, c, ord) ==
    IF calls = <<>> THEN R(<<>>, c)
    ELSE ThenLR(vinstPrepended(Head(calls), c, ord),
                LAMBDA k : vinstPrependedList(Tail(calls), k, ord))

\* the instructions of statement sid, from the n-th on
RECURSIVE vinstList(_, _, _, _, _)
vinstList(is, sid, n, c, ord) ==
    IF n > Len(is) THEN R(<<>>, c)
    ELSE ThenLR(vinst(is[n], Tok("orig", sid, n), c, ord),
                LAMBDA k : vinstList(is, sid, n + 1, k, ord))

\* the visitor's result on statements: tokens, id counter, branch pairs
V(toks, id, cb) == [toks |-> toks, id |-> id, cb |-> cb]
ThenV(h, T(_, _)) ==
    LET t == T(h.id, h.cb)
    IN  [toks |-> h.toks \o t.toks, id |-> t.id, cb |-> t.cb]
OfR(r, cb) == [toks |-> r.calls, id |-> r.id, cb |-> cb]

RECURSIVE visitBlock(_, _, _, _)

\* vstmt on an If, e being the calls of its condition: they are queued
\* before the statement, a Branch call is put at the head of each block,
\* the pair is recorded, and then the two blocks are visited
visitWithHead(head, b, c, cb, ord) ==
    ThenV(OfR(vinstPrependedList(head, c, ord), cb),
          LAMBDA k, bs : visitBlock(b, k, bs, ord))
vstmtIfEnd(s, e, t, f) ==
    V(e.calls \o <<Tok("if", s.sid, 0), Tok("then", s.sid, 0)>> \o t.toks
        \o <<Tok("else", s.sid, 0)>> \o f.toks \o <<Tok("endif", s.sid, 0)>>,
      f.id, f.cb)
vstmtIfElse(s, e, br2, t, ord) ==
    vstmtIfEnd(s, e, t, visitWithHead(<<br2>>, s.b2, t.id, t.cb, ord))
\* both Branch calls given the id of the true block
vstmtIf_sameSid(s, b1_sid, b2_sid, e, cb, ord) ==
    vstmtIfElse(s, e, mkBranch(getNewId(e.id), b1_sid, 0),
                visitWithHead(<<mkBranch(e.id, b1_sid, 1)>>, s.b1,
                              getNewId(getNewId(e.id)),
                              addBranchPair(<<b1_sid, b2_sid>>, cb), ord),
                ord)
vstmtIf(s, b1_sid, b2_sid, e, cb, ord) ==
    vstmtIfElse(s, e, mkBranch(getNewId(e.id), b2_sid, 0),
                visitWithHead(<<mkBranch(e.id, b1_sid, 1)>>, s.b1,
                              getNewId(getNewId(e.id)),
                              addBranchPair(<<b1_sid, b2_sid>>, cb), ord),
                ord)

vstmt(s, c, cb, ord) ==
    CASE s.k = "If" ->
           vstmtIf(s, s.b1[1].sid, s.b2[1].sid, instrumentExpr(s.e[1], c, ord), cb, ord)
      [] s.k = "Return" ->
           OfR(ThenLR(IF s.e # <<>> /\ isSymbolicType(typeOf(s.e[1]))
                      THEN instrumentExpr(s.e[1], c, ord)
                      ELSE R(<<>>, c),
                      LAMBDA k : R(<<mkReturn(k), Tok("return", s.sid, 0)>>, getNewId(k))),
               cb)
      [] OTHER -> OfR(vinstList(s.instrs, s.sid, 1, c, ord), cb)

visitBlock(b, c, cb, ord) ==
    IF b = <<>> THEN V(<<>>, c, cb)
    ELSE ThenV(vstmt(Head(b), c, cb, ord),
               LAMBDA k, bs : visitBlock(Tail(b), k, bs, ord))

\* the original statements of a function the visitor does not enter
RECURSIVE unvisitedBlock(_)
unvisitedBlock(b) ==
    IF b = <<>> THEN <<>>
    ELSE LET s == Head(b)
             me == CASE s.k = "If" ->
                          <<Tok("if", s.sid, 0), Tok("then", s.sid, 0)>>
                              \o unvisitedBlock(s.b1) \o <<Tok("else", s.sid, 0)>>
                              \o unvisitedBlock(s.b2) \o <<Tok("endif", s.sid, 0)>>
                     [] s.k = "Return" -> <<Tok("return", s.sid, 0)>>
                     [] OTHER -> [n \in 1..Len(s.instrs) |-> Tok("orig", s.sid, n)]
         IN  me \o unvisitedBlock(Tail(b))

(***************************************************************************)
(* The counters and the branch list of one run of the pass:                *)
(*   st = [idCount, funCount, branches, curBranches]                       *)
(* branches holds (fid, pairs) entries, newest first.                      *)
(***************************************************************************)
addFunction(st) ==
    [st EXCEPT !.branches = <<[fid |-> st.funCount, bs |-> st.curBranches]>> \o @,
               !.curBranches = <<>>,
               !.funCount = @ + 1]

\* List.rev_map instParam: the Stores draw their ids in declaration order
\* and are listed in reverse
\* List.map in its place: the Stores in declaration order
RECURSIVE revMapInstParam_inOrder(_, _, _)
revMapInstParam_inOrder(ps, c, acc) ==
    IF ps = <<>> THEN R(acc, c)
    ELSE revMapInstParam_inOrder(Tail(ps), getNewId(c),
                                 acc \o <<mkStore(c, addressOf(Var(Head(ps).name, Head(ps).ty)))>>)
RECURSIVE revMapInstParam(_, _, _)
revMapInstParam(ps, c, acc) ==
    IF ps = <<>> THEN R(acc, c)
    ELSE revMapInstParam(Tail(ps), getNewId(c),
                         <<mkStore(c, addressOf(Var(Head(ps).name, Head(ps).ty)))>> \o acc)

\* vfunc and the visit of the body: the function as it leaves the visitor.
\* st1 is the state after addFunction, ps the Stores of the parameters.
vfuncOut(f, st1, body) ==
    [out |-> [name |-> f.name, fid |-> st1.funCount, toks |-> body.toks],
     st |-> [st1 EXCEPT !.idCount = body.id, !.curBranches = body.cb]]
vfuncBody(f, st1, ps, ord) ==
    vfuncOut(f, st1,
             visitWithHead(<<mkCall(ps.id, st1.funCount)>> \o ps.calls, f.body,
                           getNewId(ps.id), st1.curBranches, ord))
vfuncEntry(f, st1, ord) ==
    vfuncBody(f, st1,
              IF ~f.varargs
              THEN revMapInstParam(SelectSeq(f.formals, LAMBDA v : isSymbolicType(v.ty)),
                                   st1.idCount, <<>>)
              ELSE R(<<>>, st1.idCount),
              ord)
vfunc(f, st, ord) ==
    IF shouldSkipFunction(f)
    THEN [out |-> [name |-> f.name, fid |-> 0, toks |-> unvisitedBlock(f.body)],
          st |-> st]
    ELSE vfuncEntry(f, addFunction(st), ord)

\* visitCilFileSameGlobals: the functions of the file in order
consOut(h, t) == [outs |-> <<h.out>> \o t.outs, st |-> t.st]
RECURSIVE visitFuns(_, _, _)
visitRest(h, funs, ord) == consOut(h, visitFuns(funs, h.st, ord))
visitFuns(funs, st, ord) ==
    IF funs = <<>> THEN [outs |-> <<>>, st |-> st]
    ELSE visitRest(vfunc(Head(funs), st, ord), Tail(funs), ord)

\* toType raised invalid_arg while a call was built
raisesInvalidArg(outs) ==
    \E i \in 1..Len(outs) : \E j \in 1..Len(outs[i].toks) :
        \E k \in 1..Len(outs[i].toks[j].args) :
            outs[i].toks[j].args[k].a = "invalid_arg"

(***************************************************************************)
(* registerGlobals and addCrestInitializer: the calls put at the head of   *)
(* the global initializer, Init first.                                     *)
(***************************************************************************)
isIndexableType(g) == g.ty.t \in {"TArray", "TComp"} /\ g.complete

mkRegGlobal(c, g) ==
    mkInstCall(mkInstFunc("RegGlobal"), c, <<toAddr(addressOf(Var(g.name, g.ty))), sizeOf(g.ty)>>)

registerGlobal(g) ==
    \/ g.k = "GVarDecl" /\ g.extern /\ isIndexableType(g)
    \/ g.k = "GVar" /\ isIndexableType(g)

\* mapOptional registerGlobal: the globals in order
RECURSIVE registerGlobals(_, _)
registerGlobals(globals, c) ==
    IF globals = <<>> THEN R(<<>>, c)
    ELSE IF registerGlobal(Head(globals))
    THEN ThenLR(One(c, LAMBDA k : mkRegGlobal(k, Head(globals))),
                LAMBDA k : registerGlobals(Tail(globals), k))
    ELSE registerGlobals(Tail(globals), c)

\* the id of Init is drawn and the counter is left as it was
initFirst_idKept(regs) ==
    R(<<mkInstCall(mkInstFunc("Init"), regs.id, <<>>)>> \o regs.calls, regs.id)
\* the RegGlobal calls are built first and Init is put before them
initFirst(regs) ==
    R(<<mkInstCall(mkInstFunc("Init"), regs.id, <<>>)>> \o regs.calls, getNewId(regs.id))
addCrestInitializer(file, c) == initFirst(registerGlobals(file.globals, c))

(***************************************************************************)
(* The counter files and the branches file.  A counter file is <<n>> when  *)
(* it holds the number n and <<>> when it is missing or holds no number.   *)
(***************************************************************************)
\* a build whose counters are not restored: every run counts from 0
readCounter_fresh(f) == 0
readCounter(f) == IF f = <<>> THEN 0 ELSE f[1]

\* writeCounter: open_out truncates, then the number is written.  The
\* outcome is "ok", "open" (open_out failed: the file is as it was) or
\* "write" (the write failed after the truncation); all but "ok" are fatal.
WriteOutcomes == {"ok", "open", "write"}
\* the file opened for appending: the number lands after the old one
writeCounter_append(f, cnt, outcome) ==
    CASE outcome = "ok" -> f \o <<cnt>>
      [] outcome = "open" -> f
      [] outcome = "write" -> f
writeCounter(f, cnt, outcome) ==
    CASE outcome = "ok" -> <<cnt>>
      [] outcome = "open" -> f
      [] outcome = "write" -> <<>>

Reverse(s) == [i \in 1..Len(s) |-> s[Len(s) + 1 - i]]

\* compare on pairs of ints, and List.sort with it
pairLe(a, b) == a[1] < b[1] \/ (a[1] = b[1] /\ a[2] <= b[2])
RECURSIVE insertPair(_, _)
insertPair(x, s) ==
    IF s = <<>> THEN <<x>>
    ELSE IF pairLe(x, Head(s)) THEN <<x>> \o s
    ELSE <<Head(s)>> \o insertPair(x, Tail(s))
RECURSIVE sortPairs(_)
sortPairs(s) == IF s = <<>> THEN <<>> ELSE insertPair(Head(s), sortPairs(Tail(s)))

writeFunBranches(entry) ==
    IF entry.fid > 0
    THEN <<(<<entry.fid, Len(entry.bs)>>)>> \o sortPairs(entry.bs)
    ELSE <<>>

RECURSIVE writeAllFunBranches(_)
writeAllFunBranches(entries) ==
    IF entries = <<>> THEN <<>>
    ELSE writeFunBranches(Head(entries)) \o writeAllFunBranches(Tail(entries))

\* the whole list written, the entry that the first addFunction pushed too
writeBranches_all(st) ==
    writeAllFunBranches(Reverse(<<[fid |-> st.funCount, bs |-> st.curBranches]>> \o st.branches))
\* the lines writeBranches appends
writeBranches(st) ==
    LET allBranches == <<[fid |-> st.funCount, bs |-> st.curBranches]>> \o st.branches
    IN  writeAllFunBranches(Tail(Reverse(allBranches)))

(***************************************************************************)
(* The programs given to the pass.  Variables: a, b, i, x of type int; p   *)
(* an int*; s a struct with int fields f, g and a bit-field bf; arr an     *)
(* int[4]; d a double; q a pointer to the struct.                          *)
(***************************************************************************)
va == Var("a", intType)
vb == Var("b", intType)
vi == Var("i", intType)
vx == Var("x", intType)
vp == Var("p", intPtrType)
vs == Var("s", compType)
vd == Var("d", floatType)
varr == Var("arr", arrayType)
vq == Var("q", compPtrType)
derefP == Mem(Lval(vp), intType)
derefQ == Mem(Lval(vq), compType)
pIdx   == Mem(BinOp("IndexPI", Lval(vp), Lval(vi), intPtrType), intType)
arrIdx == AddOffset(varr, Index(Lval(vi), intType))
sF     == AddOffset(vs, Field("f", FALSE, intType))
sG     == AddOffset(vs, Field("g", FALSE, intType))
sBf    == AddOffset(vs, Field("bf", TRUE, intType))

k3  == Const(intType, 3)
k4  == Const(intType, 4)
k5  == Const(intType, 5)
k10 == Const(intType, 10)

\* expressions of integer type without sub-expressions
IntLeaves == {k3, k4, Lval(va), Lval(derefP), Lval(arrIdx), Lval(sF), Lval(sBf),
              SizeOf(intType)}
ArithOps == {"PlusA", "Mult", "Lt", "Eq", "LAnd"}
Depth1 ==
    {BinOp(op, e1, e2, intType) : op \in ArithOps, e1 \in IntLeaves, e2 \in {k4, Lval(va), Lval(arrIdx)}}
    \cup {UnOp(op, e, intType) : op \in {"Neg", "BNot", "LNot"}, e \in IntLeaves}
    \cup {CastE(charType, e) : e \in IntLeaves}
    \cup {BinOp(op, Lval(vp), e, intPtrType) : op \in {"PlusPI", "MinusPI"}, e \in {k3, Lval(va)}}
    \cup {BinOp("MinusPP", Lval(vp), Lval(vp), intType), AddrOf(vx), AddrOf(arrIdx),
          AddrOf(sF), StartOf(varr), Lval(vp), Lval(vs), Lval(derefQ), Lval(vd)}
Depth2 ==
    {BinOp(op, e1, e2, intType) : op \in {"PlusA", "Lt"},
        e1 \in {BinOp("Mult", k3, Lval(va), intType), UnOp("Neg", Lval(va), intType), k3},
        e2 \in {BinOp("PlusA", Lval(va), k4, intType), CastE(charType, Lval(derefP))}}
GenExprs == IntLeaves \cup Depth1 \cup Depth2

\* conditions of an if, before normalization
lt10 == BinOp("Lt", Lval(va), k10, intType)
dLt1 == BinOp("Lt", Lval(vd), Const(floatType, 1), intType)
GenConds ==
    {lt10, Lval(va), UnOp("LNot", Lval(va), intType), UnOp("LNot", lt10, intType),
     UnOp("LNot", UnOp("LNot", Lval(va), intType), intType),
     CastE(charType, Lval(va)), BinOp("Eq", Lval(arrIdx), Lval(vb), intType),
     UnOp("LNot", CastE(charType, Lval(va)), intType), UnOp("LNot", dLt1, intType)}

setB(n) == InstrS(<<Set(vb, Const(intType, n))>>)
GenBlocks ==
    {<<>>, <<setB(1)>>, <<setB(1), setB(2)>>,
     <<If(Lval(vb), <<setB(3)>>, <<>>)>>,
     <<If(lt10, <<>>, <<setB(3)>>), setB(4)>>}

GenArgs ==
    {<<>>, <<Lval(va)>>, <<Lval(vs)>>, <<Lval(va), Lval(vs), BinOp("PlusA", k3, k4, intType)>>,
     <<Lval(vp), Lval(arrIdx)>>, <<Lval(vd), Lval(va), Lval(vb)>>}
GenRets == {<<>>, <<vx>>, <<vs>>, <<sBf>>, <<derefP>>, <<vd>>}

GenInstrs ==
    {Set(vx, e) : e \in GenExprs}
    \cup {Set(lv, k5) : lv \in {derefP, pIdx, arrIdx, sF, sBf, vs, vd}}
    \cup {Set(sF, BinOp("PlusA", Lval(sG), one, intType)), Asm}
    \cup {Set(vs, Lval(vs)), Set(vd, Lval(vd))}
    \cup {CallI(ret, "ext", FALSE, args) : ret \in GenRets, args \in GenArgs}
    \cup {CallI(ret, "skp", TRUE, args) : ret \in {<<>>, <<vx>>}, args \in GenArgs}
    \cup {CallPtr(ret, args) : ret \in {<<>>, <<vx>>}, args \in {<<>>, <<Lval(va)>>}}

GenStmts ==
    {InstrS(<<i>>) : i \in GenInstrs}
    \cup {If(c, b1, b2) : c \in GenConds, b1 \in GenBlocks, b2 \in GenBlocks}
    \cup {Return(<<>>), Return(<<Lval(vs)>>), Return(<<BinOp("PlusA", Lval(va), k3, intType)>>)}

GenFormals ==
    {<<>>, <<Formal("a", intType)>>,
     <<Formal("a", intType), Formal("s", compType), Formal("p", intPtrType)>>,
     <<Formal("d", floatType), Formal("a", intType), Formal("b", intType)>>}

ab == <<Formal("a", intType), Formal("b", intType)>>
ifBody == <<If(lt10, <<setB(1)>>, <<setB(2)>>), Return(<<Lval(vb)>>)>>

\* one-function files: every statement in a plain function, and the body
\* of scenario S2 in every kind of function
GenFiles ==
    {File(<<Fundec("f", FALSE, FALSE, FALSE, ab, <<st, Return(<<Lval(vb)>>)>>)>>, <<>>) :
        st \in GenStmts}
    \cup {File(<<Fundec("f", skip, varargs, FALSE, formals, ifBody)>>, <<>>) :
            skip \in BOOLEAN, varargs \in BOOLEAN, formals \in GenFormals}

\* files of several functions, with globals, for runs of several passes
fS1 == Fundec("s1", FALSE, FALSE, FALSE, <<>>,
              <<InstrS(<<Set(vx, BinOp("PlusA", k3, k4, intType))>>), Return(<<>>)>>)
fS2 == Fundec("s2", FALSE, FALSE, FALSE, ab, ifBody)
fSkip == Fundec("sk", TRUE, FALSE, FALSE, ab, ifBody)
fStatic == Fundec("st", FALSE, TRUE, TRUE, ab,
                  <<If(UnOp("LNot", Lval(va), intType),
                       <<If(Lval(vb), <<setB(7)>>, <<>>)>>, <<>>),
                    InstrS(<<CallI(<<vx>>, "s2", FALSE, <<Lval(va), Lval(vb)>>),
                             CallI(<<>>, "sk", TRUE, <<Lval(va)>>),
                             CallI(<<>>, "ext", FALSE, <<>>)>>),
                    Return(<<Lval(vx)>>)>>)
fFloat == Fundec("fl", FALSE, FALSE, FALSE, <<>>,
                 <<InstrS(<<Set(vd, Lval(vd))>>), Return(<<>>)>>)
gArr == Global("arr", arrayType, "GVar", FALSE, TRUE)
gExt == Global("s", compType, "GVarDecl", TRUE, TRUE)
gInt == Global("x", intType, "GVar", FALSE, TRUE)
gInc == Global("t", compType, "GVarDecl", TRUE, FALSE)

TUs ==
    {File(<<fS1>>, <<gInt>>),
     File(<<fS2, fSkip>>, <<gArr, gInt>>),
     File(<<fSkip, fStatic, fS2>>, <<gExt, gInc>>),
     File(<<fS1, fFloat>>, <<>>),
     File(<<>>, <<gArr>>)}

(***************************************************************************)
(* The symbolic expression algebra (symbolic_expression.h/.cc).            *)
(*                                                                         *)
(* value_t is a 64-bit signed integer.  A value is kept as its eight bytes *)
(* in two's complement, least significant first, so that shifts, masks and *)
(* sums are computed on all 64 bits.  Every shift of the code is by a      *)
(* multiple of 8 bits: it moves whole bytes.                               *)
(***************************************************************************)
WordBytes == 8
Byte == 0..255
Bytes == 1..WordBytes

\* the value_t of a C int n
Word(n) ==
    [k \in Bytes |-> IF k <= 4 THEN (n \div 256^(k - 1)) % 256
                     ELSE IF n < 0 THEN 255 ELSE 0]
signByte(w) == IF w[WordBytes] >= 128 THEN 255 ELSE 0

\* Shifts by 8 * k bits.  A count of 64 bits or more is undefined: the
\* build either takes the count modulo 64 (ub = "wrap", x86) or shifts
\* everything out (ub = "out").
ShiftLeft(w, k, ub) ==
    IF k < WordBytes \/ ub = "wrap"
    THEN [j \in Bytes |-> IF j <= (k % WordBytes) THEN 0 ELSE w[j - (k % WordBytes)]]
    ELSE [j \in Bytes |-> 0]
\* value_t is signed: >> keeps the sign
ShiftRight(w, k, ub) ==
    IF k < WordBytes \/ ub = "wrap"
    THEN [j \in Bytes |-> IF j + (k % WordBytes) <= WordBytes
                          THEN w[j + (k % WordBytes)] ELSE signByte(w)]
    ELSE [j \in Bytes |-> signByte(w)]

\* (1 << (8*n)) - 1, computed in int and widened to value_t.  For n >= 4
\* the shift of the int 1 is undefined: the build either takes the count
\* modulo 32 (ub = "wrap"), or gets 0 and the mask -1 (ub = "out").
Mask(n, ub) ==
    IF n < 4 \/ ub = "wrap"
    THEN [j \in Bytes |-> IF j <= (n % 4) THEN 255 ELSE 0]
    ELSE [j \in Bytes |-> 255]
\* w & m for a mask m whose bytes are 0 or 255
BitAnd(w, m) == [j \in Bytes |-> IF m[j] = 255 THEN w[j] ELSE 0]

\* w1 + w2, modulo 2^64
Carry(w1, w2, j) ==
    LET RECURSIVE c(_)
        c(i) == IF i = 0 THEN 0 ELSE (w1[i] + w2[i] + c(i - 1)) \div 256
    IN  c(j)
Plus(w1, w2) == [j \in Bytes |-> (w1[j] + w2[j] + Carry(w1, w2, j - 1)) % 256]

\* the nodes: a SymbolicExpr proper is concrete; BinaryExpr is a subclass
kBinaryNodeTag == 2
kConstNodeTag == 5
CONCAT == 13
EXTRACT == 14
U_LONG_size == 8
SymbolicExpr(size, value) ==
    [tag |-> kConstNodeTag, size |-> size, value |-> value]
BinaryExpr(op, l, r, size, value) ==
    [tag |-> kBinaryNodeTag, op |-> op, left |-> l, right |-> r,
     size |-> size, value |-> value]
NewConcreteExpr(size, val) == SymbolicExpr(size, val)
\* true in the base class, which is the class of the concrete nodes
IsConcrete(e) == e.tag = kConstNodeTag

\* SymbolicExpr::Equals, of the base class
Equals(this, e) ==
    /\ IsConcrete(e)
    /\ this.value = e.value
    /\ this.size = e.size

\* big: the build defines CREST_BIG_ENDIAN
Concatenate(e1, e2, big, ub) ==
    BinaryExpr(CONCAT,
               IF big THEN e1 ELSE e2, IF big THEN e2 ELSE e1,
               e1.size + e2.size,
               Plus(ShiftLeft(e1.value, e2.size, ub), e2.value))

ExtractBytes(e, i, n, big, ub) ==
    LET i2 == IF big THEN e.size - i - n ELSE i
    IN  BinaryExpr(EXTRACT, e, NewConcreteExpr(U_LONG_size, Word(i2)), n,
                   BitAnd(ShiftRight(e.value, i2, ub), Mask(n, ub)))

(***************************************************************************)
(* Serialization.  The bytes of a value and of a size are appended as the  *)
(* host keeps them (least significant first on the hosts of this model);   *)
(* size_t has the width of value_t.                                        *)
(***************************************************************************)
\* the size before the value
SerializeTag_sizeFirst(e, c) ==
    [j \in Bytes |-> Word(e.size)[j]] \o [j \in Bytes |-> e.value[j]] \o <<c>>
\* Serialize(s, c): value, size, tag
SerializeTag(e, c) ==
    [j \in Bytes |-> e.value[j]] \o [j \in Bytes |-> Word(e.size)[j]] \o <<c>>

RECURSIVE Serialize(_)
\* of a binary node: the common part with its tag, the operator, the children
BinaryExpr_Serialize(e) ==
    SerializeTag(e, kBinaryNodeTag) \o <<e.op>>
    \o Serialize(e.left) \o Serialize(e.right)
Serialize(e) ==
    IF e.tag = kConstNodeTag THEN SerializeTag(e, kConstNodeTag)
    ELSE BinaryExpr_Serialize(e)

\* An istream over the bytes buf: pos bytes are consumed; fail is the
\* failbit, and once it is set every read fails.
istream(buf) == [buf |-> buf, pos |-> 0, fail |-> FALSE]
Avail(s) == Len(s.buf) - s.pos
\* s.read(&x, n): n bytes, or failure with what was left consumed
read(s, n) ==
    IF ~s.fail /\ Avail(s) >= n
    THEN [s |-> [s EXCEPT !.pos = @ + n], data |-> SubSeq(s.buf, s.pos + 1, s.pos + n)]
    ELSE [s |-> [s EXCEPT !.pos = IF s.fail THEN @ ELSE Len(s.buf), !.fail = TRUE],
          data |-> <<>>]
\* s.get(): the next byte, or EOF (-1) and failure
get(s) ==
    IF ~s.fail /\ Avail(s) >= 1
    THEN [s |-> [s EXCEPT !.pos = @ + 1], c |-> s.buf[s.pos + 1]]
    ELSE [s |-> [s EXCEPT !.fail = TRUE], c |-> -1]

\* a size_t read from the stream
SizeT(w) == w[1] + 256 * w[2] + 65536 * w[3]

RECURSIVE NodeCount(_)
NodeCount(e) ==
    IF e.tag = kConstNodeTag THEN 1
    ELSE 1 + NodeCount(e.left) + NodeCount(e.right)

\* What a call of Parse leaves: e is <<>> for NULL and <<node>> otherwise;
\* exited says that the process was ended by exit(1); lost counts the
\* nodes that were allocated and are neither returned nor deleted.
ParseResult(e, s, exited, lost) == [e |-> e, s |-> s, exited |-> exited, lost |-> lost]
Null(s, lost) == ParseResult(<<>>, s, FALSE, lost)
Lives(r) == IF r.e = <<>> THEN 0 ELSE NodeCount(r.e[1])

RECURSIVE Parse(_)
\* case kBinaryNodeTag, from the operator byte on
ParseBinary(s, size, val) ==
    LET op == get(s)
    IN  IF op.s.fail THEN Null(op.s, 0)
        ELSE LET left == Parse(op.s)
             IN  IF left.exited THEN left
                 ELSE LET right == Parse(left.s)
                      IN  IF right.exited THEN [right EXCEPT !.lost = @ + left.lost + Lives(left)]
                          ELSE IF left.e = <<>> \/ right.e = <<>>
                          THEN Null(right.s, left.lost + right.lost + Lives(left) + Lives(right))
                          ELSE ParseResult(<<BinaryExpr(op.c, left.e[1], right.e[1], size, val)>>,
                                           right.s, FALSE, left.lost + right.lost)
\* The tags of the variants that this model does not build (basic,
\* compare, unary, deref) are in no input; every other byte, and EOF, goes
\* to the default case.
Parse(s) ==
    LET val == read(s, WordBytes)
    IN  IF val.s.fail THEN Null(val.s, 0)
        ELSE LET size == read(val.s, WordBytes)
             IN  IF size.s.fail THEN Null(size.s, 0)
                 ELSE LET type_ == get(size.s)
                      IN  CASE type_.c = kConstNodeTag ->
                                 ParseResult(<<SymbolicExpr(SizeT(size.data), val.data)>>,
                                             type_.s, FALSE, 0)
                            [] type_.c = kBinaryNodeTag ->
                                 ParseBinary(type_.s, SizeT(size.data), val.data)
                            [] type_.c \notin 0..kConstNodeTag ->
                                 ParseResult(<<>>, type_.s, TRUE, 0)

(***************************************************************************)
(* The state: the files on disk, and the runs of the pass.  The pass runs  *)
(* once per source file, each run a process of its own with its own        *)
(* counters; only the files are shared.                                    *)
(***************************************************************************)
VARIABLES
    counterFile,   \* idcount, stmtcount, funcount: <<n>> or <<>>
    cfgFile,       \* the lines of cfg
    cfgFuncMap,    \* the lines of cfg_func_map
    branchesFile,  \* the lines of branches
    proc,          \* the state of each run
    ord,           \* the evaluation order of the build of the pass
    lib,           \* the programs the runs are given
    started,       \* the number of runs started so far
    issued,        \* every id given out so far, in order: ids, sids, fids
    fault,         \* some run crashed or failed to write a counter
    sym            \* the expressions built by a user of the algebra

vars == <<counterFile, cfgFile, cfgFuncMap, branchesFile, proc, ord, lib,
          started, issued, fault, sym>>

MaxPasses == 2
Procs == {1, 2}

CounterNames == {"idcount", "stmtcount", "funcount"}
emptyFile == File(<<>>, <<>>)
noCounts == [idcount |-> 0, stmtcount |-> 0, funcount |-> 0]

\* a run that has not started
idleProc ==
    [pc |-> "idle", file |-> emptyFile,
     idCount |-> 0, stmtCount |-> 0, funCount |-> 0,
     branches |-> <<>>, curBranches |-> <<>>,
     out |-> <<>>, init |-> <<>>,
     found |-> [n \in CounterNames |-> <<>>], loaded |-> noCounts,
     cfgLines |-> <<>>, mapLines |-> <<>>, brLines |-> <<>>,
     cfgOk |-> FALSE, mapOk |-> FALSE, brOk |-> FALSE,
     failedAt |-> "", steps |-> <<>>]

InitFiles ==
    /\ cfgFile = <<>>
    /\ cfgFuncMap = <<>>
    /\ branchesFile = <<>>
    /\ proc = [p \in Procs |-> idleProc]
    /\ ord \in EvalOrders
    /\ started = 0
    /\ issued = [ids |-> <<>>, sids |-> <<>>, fids |-> <<>>]
    /\ fault = FALSE

\* the build system has cleaned the directory: no file exists
\* no expression is built while the pass runs
noExprs ==
    [pc |-> "none", big |-> FALSE, ub |-> "wrap", e1 |-> <<>>, e2 |-> <<>>,
     cat |-> <<>>, ex |-> <<>>, at |-> <<>>, wire |-> <<>>, parsed |-> <<>>]

Init ==
    /\ InitFiles
    /\ counterFile = [n \in CounterNames |-> <<>>]
    /\ lib = "TUs"
    /\ sym = noExprs

\* one run on one generated file, in a directory whose counters may
\* already stand at some number
InitFn ==
    /\ InitFiles
    /\ counterFile \in {[n \in CounterNames |-> <<>>],
                        [idcount |-> <<7>>, stmtcount |-> <<3>>, funcount |-> <<1>>]}
    /\ lib = "Gen"
    /\ sym = noExprs

Library == IF lib = "Gen" THEN GenFiles ELSE TUs
Budget == IF lib = "Gen" THEN 1 ELSE MaxPasses

at(p, pcs) == proc[p].pc \in pcs
step(p, name, rec) == [rec EXCEPT !.pc = name, !.steps = Append(@, name)]
abort(p, name, rec) == [rec EXCEPT !.pc = "aborted", !.failedAt = name]

\* the runs are serialized by the build: a run starts when no other runs
\* (the processes are alike: the first one that is free is taken)
Start(p) ==
    /\ \A q \in Procs : proc[q].pc = "idle"
    /\ \A q \in Procs : p <= q
    /\ started < Budget
    /\ \E f \in Library : proc' = [proc EXCEPT ![p] = [idleProc EXCEPT !.pc = "start", !.file = f]]
    /\ started' = started + 1
    /\ UNCHANGED <<counterFile, cfgFile, cfgFuncMap, branchesFile, ord, lib, sym, issued, fault>>

\* normalizeConditionalsVisitor, then Cfg.clearFileCFG
Normalize(p) ==
    /\ at(p, {"start"})
    /\ proc' = [proc EXCEPT ![p] =
                 step(p, "cleared", [@ EXCEPT !.file = normalizeConditionals(@), !.stmtCount = 0])]
    /\ UNCHANGED <<counterFile, cfgFile, cfgFuncMap, branchesFile, ord, lib, sym, started, issued, fault>>

\* readIdCount; readStmtCount; readFunCount
ReadCounters(p) ==
    /\ at(p, {"cleared"})
    /\ proc' = [proc EXCEPT ![p] =
                 step(p, "loaded",
                      [@ EXCEPT !.idCount = readCounter(counterFile.idcount),
                                !.stmtCount = readCounter(counterFile.stmtcount),
                                !.funCount = readCounter(counterFile.funcount),
                                !.found = counterFile,
                                !.loaded = [idcount |-> readCounter(counterFile.idcount),
                                            stmtcount |-> readCounter(counterFile.stmtcount),
                                            funcount |-> readCounter(counterFile.funcount)]])]
    /\ UNCHANGED <<counterFile, cfgFile, cfgFuncMap, branchesFile, ord, lib, sym, started, issued, fault>>

\* Cfg.computeFileCFG
ComputeCFGTo(p, r) ==
    /\ proc' = [proc EXCEPT ![p] =
                 step(p, "cfg", [@ EXCEPT !.file = r.file, !.stmtCount = r.stmtCount])]
    /\ issued' = [issued EXCEPT !.sids =
                    @ \o [i \in 1..(r.stmtCount - proc[p].stmtCount) |-> proc[p].stmtCount + i]]
ComputeCFG(p) ==
    /\ at(p, {"loaded"})
    /\ ComputeCFGTo(p, computeFileCFG(proc[p].file, proc[p].stmtCount))
    /\ UNCHANGED <<counterFile, cfgFile, cfgFuncMap, branchesFile, ord, lib, sym, started, fault>>

\* handleCallEdgesAndWriteCfg: List.hd fails on a function without a
\* statement; a file that cannot be opened is skipped with a diagnostic
WriteCfgLines(p, cfgOk, mapOk, cl, ml) ==
    /\ cfgFile' = cfgFile \o cl
    /\ cfgFuncMap' = cfgFuncMap \o ml
    /\ proc' = [proc EXCEPT ![p] =
                 step(p, "cfgWritten",
                      [@ EXCEPT !.cfgLines = cl, !.mapLines = ml,
                                !.cfgOk = cfgOk, !.mapOk = mapOk])]
handleCallEdgesAndWriteCfg(p, cfgOk, mapOk, stmtMap) ==
    WriteCfgLines(p, cfgOk, mapOk,
                  IF cfgOk THEN writeCfg(proc[p].file, stmtMap) ELSE <<>>,
                  IF mapOk THEN writeFirstStmtIdMap(stmtMap) ELSE <<>>)
WriteCfg(p) ==
    /\ at(p, {"cfg"})
    /\ IF hasEmptyBody(proc[p].file)
       THEN /\ proc' = [proc EXCEPT ![p] = abort(p, "cfgWritten", @)]
            /\ fault' = TRUE
            /\ UNCHANGED <<cfgFile, cfgFuncMap>>
       ELSE /\ \E cfgOk \in BOOLEAN, mapOk \in BOOLEAN :
                 handleCallEdgesAndWriteCfg(p, cfgOk, mapOk, buildFirstStmtIdMap(proc[p].file))
            /\ UNCHANGED fault
    /\ UNCHANGED <<counterFile, branchesFile, ord, lib, sym, started, issued>>

runtimeIds(toks) ==
    [i \in 1..Len(SelectSeq(toks, IsRuntimeCall)) |-> SelectSeq(toks, IsRuntimeCall)[i].id]
RECURSIVE outIds(_)
outIds(outs) ==
    IF outs = <<>> THEN <<>> ELSE runtimeIds(Head(outs).toks) \o outIds(Tail(outs))
outFids(outs) ==
    [i \in 1..Len(SelectSeq(outs, LAMBDA o : o.fid # 0)) |->
        SelectSeq(outs, LAMBDA o : o.fid # 0)[i].fid]

\* the instrumentation visitor over the file; invalid_arg ends the run
VisitTo(p, r) ==
    IF raisesInvalidArg(r.outs)
    THEN /\ proc' = [proc EXCEPT ![p] = abort(p, "visited", @)]
         /\ fault' = TRUE
         /\ UNCHANGED issued
    ELSE /\ proc' = [proc EXCEPT ![p] =
                      step(p, "visited",
                           [@ EXCEPT !.idCount = r.st.idCount,
                                     !.funCount = r.st.funCount,
                                     !.branches = r.st.branches,
                                     !.curBranches = r.st.curBranches,
                                     !.out = r.outs])]
         /\ issued' = [issued EXCEPT !.ids = @ \o outIds(r.outs),
                                     !.fids = @ \o outFids(r.outs)]
         /\ UNCHANGED fault
Visit(p) ==
    /\ at(p, {"cfgWritten"})
    /\ VisitTo(p, visitFuns(proc[p].file.funs,
                            [idCount |-> proc[p].idCount, funCount |-> proc[p].funCount,
                             branches |-> proc[p].branches,
                             curBranches |-> proc[p].curBranches],
                            ord))
    /\ UNCHANGED <<counterFile, cfgFile, cfgFuncMap, branchesFile, ord, lib, sym, started>>

AddInitializerTo(p, r) ==
    /\ proc' = [proc EXCEPT ![p] =
                 step(p, "initialized", [@ EXCEPT !.idCount = r.id, !.init = r.calls])]
    /\ issued' = [issued EXCEPT !.ids = @ \o runtimeIds(r.calls)]
AddInitializer(p) ==
    /\ at(p, {"visited"})
    /\ AddInitializerTo(p, addCrestInitializer(proc[p].file, proc[p].idCount))
    /\ UNCHANGED <<counterFile, cfgFile, cfgFuncMap, branchesFile, ord, lib, sym, started, fault>>

\* writeIdCount / writeStmtCount / writeFunCount: failwith on a failure
WriteCount(p, from, name, to, cnt) ==
    /\ at(p, {from})
    /\ \E outcome \in WriteOutcomes :
         /\ counterFile' = [counterFile EXCEPT ![name] = writeCounter(@, cnt, outcome)]
         /\ IF outcome = "ok"
            THEN proc' = [proc EXCEPT ![p] = step(p, to, @)] /\ UNCHANGED fault
            ELSE proc' = [proc EXCEPT ![p] = abort(p, to, @)] /\ fault' = TRUE
    /\ UNCHANGED <<cfgFile, cfgFuncMap, branchesFile, ord, lib, sym, started, issued>>

WriteIdCount(p)   == WriteCount(p, "initialized", "idcount", "idWritten", proc[p].idCount)
WriteStmtCount(p) == WriteCount(p, "idWritten", "stmtcount", "stmtWritten", proc[p].stmtCount)
WriteFunCount(p)  == WriteCount(p, "stmtWritten", "funcount", "funWritten", proc[p].funCount)

\* writeBranches: a failure to open the file is reported and the run goes on
WriteBranchesLines(p, brOk, bl) ==
    /\ branchesFile' = branchesFile \o bl
    /\ proc' = [proc EXCEPT ![p] = step(p, "done", [@ EXCEPT !.brLines = bl, !.brOk = brOk])]
WriteBranches(p) ==
    /\ at(p, {"funWritten"})
    /\ \E brOk \in BOOLEAN :
         WriteBranchesLines(p, brOk,
             IF brOk
             THEN writeBranches([funCount |-> proc[p].funCount,
                                 curBranches |-> proc[p].curBranches,
                                 branches |-> proc[p].branches])
             ELSE <<>>)
    /\ UNCHANGED <<counterFile, cfgFile, cfgFuncMap, ord, lib, sym, started, issued, fault>>

\* the process is killed somewhere between the load and the end
MidPass == {"loaded", "cfg", "cfgWritten", "visited", "initialized", "idWritten", "stmtWritten", "funWritten"}
Crash(p) ==
    /\ at(p, MidPass)
    /\ proc' = [proc EXCEPT ![p] = abort(p, "killed", @)]
    /\ fault' = TRUE
    /\ UNCHANGED <<counterFile, cfgFile, cfgFuncMap, branchesFile, ord, lib, sym, started, issued>>

\* the process exits
Exit(p) ==
    /\ at(p, {"done", "aborted"})
    /\ proc' = [proc EXCEPT ![p] = idleProc]
    /\ UNCHANGED <<counterFile, cfgFile, cfgFuncMap, branchesFile, ord, lib, sym, started, issued, fault>>

Next ==
    \E p \in Procs :
        \/ Start(p)
        \/ Normalize(p)
        \/ ReadCounters(p)
        \/ ComputeCFG(p)
        \/ WriteCfg(p)
        \/ Visit(p)
        \/ AddInitializer(p)
        \/ WriteIdCount(p)
        \/ WriteStmtCount(p)
        \/ WriteFunCount(p)
        \/ WriteBranches(p)
        \/ Crash(p)
        \/ Exit(p)

Spec == Init /\ [][Next]_vars
SpecFn == InitFn /\ [][Next]_vars

(***************************************************************************)
(* The build does not serialize the runs: a run starts whenever a process  *)
(* is free, whatever the other one is doing.  Nothing in the pass waits    *)
(* for another run: readCounter and writeCounter open, use and close the   *)
(* file, and fd_doit calls them without a lock.                            *)
(***************************************************************************)
InitPar ==
    /\ InitFiles
    /\ counterFile \in {[n \in CounterNames |-> <<>>],
                        [idcount |-> <<7>>, stmtcount |-> <<3>>, funcount |-> <<1>>]}
    /\ lib = "Par"
    /\ sym = noExprs

StartPar(p) ==
    /\ proc[p].pc = "idle"
    /\ started < Budget
    /\ \E f \in Library : proc' = [proc EXCEPT ![p] = [idleProc EXCEPT !.pc = "start", !.file = f]]
    /\ started' = started + 1
    /\ UNCHANGED <<counterFile, cfgFile, cfgFuncMap, branchesFile, ord, lib, sym, issued, fault>>

\* The disk does not fail and no run is killed while the runs overlap:
\* every file opens and every write succeeds.
WriteCfgPar(p) ==
    /\ at(p, {"cfg"})
    /\ IF hasEmptyBody(proc[p].file)
       THEN /\ proc' = [proc EXCEPT ![p] = abort(p, "cfgWritten", @)]
            /\ fault' = TRUE
            /\ UNCHANGED <<cfgFile, cfgFuncMap>>
       ELSE /\ handleCallEdgesAndWriteCfg(p, TRUE, TRUE, buildFirstStmtIdMap(proc[p].file))
            /\ UNCHANGED fault
    /\ UNCHANGED <<counterFile, branchesFile, ord, lib, sym, started, issued>>

\* the larger of the number on disk and the run's own is kept
WriteCountPar_keepMax(p, from, name, to, cnt) ==
    /\ at(p, {from})
    /\ counterFile' = [counterFile EXCEPT ![name] =
                         IF readCounter(@) > cnt THEN @ ELSE writeCounter(@, cnt, "ok")]
    /\ proc' = [proc EXCEPT ![p] = step(p, to, @)]
    /\ UNCHANGED <<cfgFile, cfgFuncMap, branchesFile, ord, lib, sym, started, issued, fault>>
WriteCountPar(p, from, name, to, cnt) ==
    /\ at(p, {from})
    /\ counterFile' = [counterFile EXCEPT ![name] = writeCounter(@, cnt, "ok")]
    /\ proc' = [proc EXCEPT ![p] = step(p, to, @)]
    /\ UNCHANGED <<cfgFile, cfgFuncMap, branchesFile, ord, lib, sym, started, issued, fault>>

WriteIdCountPar(p)   == WriteCountPar(p, "initialized", "idcount", "idWritten", proc[p].idCount)
WriteStmtCountPar(p) == WriteCountPar(p, "idWritten", "stmtcount", "stmtWritten", proc[p].stmtCount)
WriteFunCountPar(p)  == WriteCountPar(p, "stmtWritten", "funcount", "funWritten", proc[p].funCount)

WriteBranchesPar(p) ==
    /\ at(p, {"funWritten"})
    /\ WriteBranchesLines(p, TRUE,
           writeBranches([funCount |-> proc[p].funCount,
                          curBranches |-> proc[p].curBranches,
                          branches |-> proc[p].branches]))
    /\ UNCHANGED <<counterFile, cfgFile, cfgFuncMap, ord, lib, sym, started, issued, fault>>

NextPar ==
    \E p \in Procs :
        \/ StartPar(p)
        \/ Normalize(p)
        \/ ReadCounters(p)
        \/ ComputeCFG(p)
        \/ WriteCfgPar(p)
        \/ Visit(p)
        \/ AddInitializer(p)
        \/ WriteIdCountPar(p)
        \/ WriteStmtCountPar(p)
        \/ WriteFunCountPar(p)
        \/ WriteBranchesPar(p)
        \/ Exit(p)

SpecPar == InitPar /\ [][NextPar]_vars

(***************************************************************************)
(* A user of the expression algebra: two concrete expressions are given;   *)
(* they are concatenated and a slice is extracted, or an expression is     *)
(* serialized and a stream that holds the bytes, or only the first of      *)
(* them, is parsed.  The build fixes the endianness and what the           *)
(* undefined shifts do.                                                    *)
(***************************************************************************)
ExprSizes == {1, 2, 4, 8}
ExprValues == {Word(n) : n \in {0, 1, 171, -1, -86, 43981, 305419896}}
ConcreteExprs == {NewConcreteExpr(size, v) : size \in ExprSizes, v \in ExprValues}

InitExpr ==
    /\ InitFiles
    /\ ord = "RL"
    /\ counterFile = [n \in CounterNames |-> <<>>]
    /\ lib = "Exprs"
    /\ \E big \in BOOLEAN, ub \in {"wrap", "out"}, e1 \in ConcreteExprs, e2 \in ConcreteExprs :
          sym = [noExprs EXCEPT !.pc = "given", !.big = big, !.ub = ub,
                                !.e1 = <<e1>>, !.e2 = <<e2>>]

passVars == <<counterFile, cfgFile, cfgFuncMap, branchesFile, proc, ord, lib,
              started, issued, fault>>

Concat ==
    /\ sym.pc = "given"
    /\ sym' = [sym EXCEPT !.pc = "concatenated",
                          !.cat = <<Concatenate(sym.e1[1], sym.e2[1], sym.big, sym.ub)>>]
    /\ UNCHANGED passVars

\* a slice of the concatenation that has the size of one of the two and
\* starts at 0 or right after a slice of the size of the other
Extract ==
    /\ sym.pc = "concatenated"
    /\ \E n \in {sym.e1[1].size, sym.e2[1].size} :
       \E i \in {0, sym.cat[1].size - n} :
          /\ i % n = 0
          /\ sym' = [sym EXCEPT !.pc = "extracted", !.at = <<i, n>>,
                                !.ex = <<ExtractBytes(sym.cat[1], i, n, sym.big, sym.ub)>>]
    /\ UNCHANGED passVars

SerializeExpr ==
    /\ sym.pc \in {"given", "concatenated"}
    /\ sym' = [sym EXCEPT !.pc = "serialized",
                          !.wire = Serialize(IF sym.pc = "given" THEN sym.e1[1]
                                             ELSE sym.cat[1])]
    /\ UNCHANGED passVars

\* the stream holds the first k bytes
ParseExpr ==
    /\ sym.pc = "serialized"
    /\ \E k \in 0..Len(sym.wire) :
          sym' = [sym EXCEPT !.pc = "parsed", !.at = <<k>>,
                             !.parsed = <<Parse(istream(SubSeq(sym.wire, 1, k)))>>]
    /\ UNCHANGED passVars

NextExpr ==
    \/ Concat
    \/ Extract
    \/ SerializeExpr
    \/ ParseExpr

SpecExpr == InitExpr /\ [][NextExpr]_vars

(***************************************************************************)
(* Properties.                                                             *)
(***************************************************************************)
NoDup(s) == Cardinality({s[i] : i \in 1..Len(s)}) = Len(s)
TheRun == proc[1]

\* C1: over any number of runs of the pass that share the working
\* directory and do not overlap, each run completing before the next
\* starts, no instrumentation-call id, no statement id and no function id
\* is given out twice, within a run or across runs.
C1_IdsNeverReissued ==
    ~fault => /\ NoDup(issued.ids)
              /\ NoDup(issued.sids)
              /\ NoDup(issued.fids)

\* a second run has completed after a first one that gave out ids of all
\* three kinds, and has given out more of each
C1_Witness ==
    /\ ~fault
    /\ started = 2
    /\ TheRun.pc = "done"
    /\ TheRun.loaded.idcount > 0 /\ TheRun.idCount > TheRun.loaded.idcount
    /\ TheRun.loaded.stmtcount > 0 /\ TheRun.stmtCount > TheRun.loaded.stmtcount
    /\ TheRun.loaded.funcount > 0 /\ TheRun.funCount > TheRun.loaded.funcount

Did(r, name) == \E i \in 1..Len(r.steps) : r.steps[i] = name
cfgSids(lines) == [i \in 1..Len(lines) |-> lines[i].sid]

\* C2: a run that ends before its end, anywhere after the counters were
\* loaded, leaves each counter on disk at least as large as every id of
\* that kind the run has given out or written to cfg, so that no later
\* run gives out one of them again.
C2_CrashLeavesCountersAdvanced ==
    TheRun.pc = "aborted" =>
        /\ readCounter(counterFile.idcount) >= TheRun.idCount
        /\ readCounter(counterFile.funcount) >= TheRun.funCount
        /\ \A i \in 1..Len(TheRun.cfgLines) :
               TheRun.cfgLines[i].sid <= readCounter(counterFile.stmtcount)

\* what the crash leads to: cfg holds lines of two runs under one
\* statement id
C2_SidReissued ==
    /\ ~NoDup(cfgSids(cfgFile))
    /\ TheRun.cfgLines # <<>>
    /\ started = 2

\* C3: a counter whose file is missing is loaded as 0 and the run goes on;
\* at the end of a run each of idcount, stmtcount and funcount holds the
\* final value of its counter and nothing else; a failed write of one of
\* them ends the run: the counters after it stay as they were found and
\* nothing is appended to branches.
WriteStep == [idcount |-> "idWritten", stmtcount |-> "stmtWritten", funcount |-> "funWritten"]
FinalCount(r) == [idcount |-> r.idCount, stmtcount |-> r.stmtCount, funcount |-> r.funCount]
C3_CountersLoadedAndStored ==
    /\ Did(TheRun, "loaded") =>
           \A n \in CounterNames : TheRun.found[n] = <<>> => TheRun.loaded[n] = 0
    /\ TheRun.pc \in {"funWritten", "done"} =>
           \A n \in CounterNames : counterFile[n] = <<FinalCount(TheRun)[n]>>
    /\ \A n \in CounterNames :
           (TheRun.pc = "aborted" /\ TheRun.failedAt = WriteStep[n]) =>
               /\ \A m \in CounterNames :
                      ~Did(TheRun, WriteStep[m]) /\ m # n => counterFile[m] = TheRun.found[m]
               /\ ~Did(TheRun, "done")
               /\ TheRun.brLines = <<>>

\* a run that found no counter file has reached its end and stored all
\* three counters, none of them 0
C3_WitnessStored ==
    /\ TheRun.pc = "done"
    /\ \A n \in CounterNames : TheRun.found[n] = <<>> /\ readCounter(counterFile[n]) > 0

\* the lines of branches as a reader takes them: a header <<fid, n>> and
\* the n pairs after it; a header without its n lines reads as fid -1
RECURSIVE parseBranches(_)
parseBranches(ls) ==
    IF ls = <<>> THEN <<>>
    ELSE IF Len(ls) < Head(ls)[2] + 1 THEN <<[fid |-> -1, pairs |-> <<>>]>>
    ELSE <<[fid |-> Head(ls)[1], pairs |-> SubSeq(ls, 2, Head(ls)[2] + 1)]>>
             \o parseBranches(SubSeq(ls, Head(ls)[2] + 2, Len(ls)))

IfsOf(body) == SelectSeq(allStmts(body), LAMBDA s : s.k = "If")
PairOf(s) == <<s.b1[1].sid, s.b2[1].sid>>
Occurrences(s, x) == Cardinality({i \in 1..Len(s) : s[i] = x})
SeqSet(s) == {s[i] : i \in 1..Len(s)}

\* the if statement s of the k-th function of run r has exactly one pair
\* in the sections secs, under the id of that function
RecordedOnce(r, secs, k, s) ==
    /\ Cardinality({i \in 1..Len(secs) : secs[i].fid = r.out[k].fid}) = 1
    /\ \A i \in 1..Len(secs) :
           secs[i].fid = r.out[k].fid => Occurrences(secs[i].pairs, PairOf(s)) = 1
InCfg(r, s) == {PairOf(s)[1], PairOf(s)[2]} \subseteq SeqSet(cfgSids(r.cfgLines))
Written(r) == r.pc = "done" /\ r.brOk /\ r.cfgOk

NotRecorded(secs, s) == \A i \in 1..Len(secs) : Occurrences(secs[i].pairs, PairOf(s)) = 0
secIdx(funs, k) == Cardinality({j \in 1..k : ~funs[j].skip})
LexSorted(ps) ==
    \A j \in 1..(Len(ps) - 1) :
        \/ ps[j][1] < ps[j + 1][1]
        \/ ps[j][1] = ps[j + 1][1] /\ ps[j][2] <= ps[j + 1][2]
\* sec is the section of function f, which left the visitor as o
SectionOf(sec, f, o) ==
    /\ o.toks[1].fn = "Call"
    /\ sec.fid = o.toks[1].args[1].n
    /\ Len(sec.pairs) = Len(IfsOf(f.body))
    /\ SeqSet(sec.pairs) = {PairOf(s) : s \in SeqSet(IfsOf(f.body))}
    /\ LexSorted(sec.pairs)
BranchesOf(r, secs) ==
    /\ Len(secs) = secIdx(r.file.funs, Len(r.file.funs))
    /\ \A k \in 1..Len(r.file.funs) :
           ~r.file.funs[k].skip =>
               SectionOf(secs[secIdx(r.file.funs, k)], r.file.funs[k], r.out[k])

\* C6: the lines a run appends to branches are, for each function it has
\* instrumented, in order, a header <<fid, n>>, fid the id given to the
\* Call at the entry of the function and n the number of its if
\* statements, and then the n pairs of those statements in lexicographic
\* order; there is no other header.
C6_BranchesFormat ==
    (TheRun.pc = "done" /\ TheRun.brOk) =>
        BranchesOf(TheRun, parseBranches(TheRun.brLines))

\* a second run has appended the sections of two functions, one of them
\* with two if statements, the function ids not starting at 1
C6_Witness ==
    /\ TheRun.pc = "done" /\ TheRun.brOk
    /\ TheRun.loaded.funcount > 0
    /\ \E k \in 1..Len(TheRun.file.funs) :
           /\ ~TheRun.file.funs[k].skip
           /\ Len(IfsOf(TheRun.file.funs[k].body)) = 2
    /\ Len(parseBranches(TheRun.brLines)) >= 2

(***************************************************************************)
(* Properties of the visitor, on the one-function files.                   *)
(***************************************************************************)
TheFun == TheRun.file.funs[1]
TheOut == TheRun.out[1]
Visited == TheRun.out # <<>>

Shape(cs) == [i \in 1..Len(cs) |-> [fn |-> cs[i].fn, args |-> cs[i].args]]
Ids(cs) == [i \in 1..Len(cs) |-> cs[i].id]
Call0(fn, args) == [fn |-> fn, args |-> args]

\* a function with the parameters (int a, int b) that is entered by the
\* visitor: its tokens are Call, Store(&b), Store(&a), and then the body
IsPlain(f) == ~f.skip /\ ~f.varargs /\ f.formals = ab
BodyToks(o) == SubSeq(o.toks, Len(ab) + 2, Len(o.toks))
BodyFirst(o, n) == SubSeq(o.toks, Len(ab) + 2, Len(ab) + 1 + n)
\* the tokens of the statement return b;
ReturnB ==
    <<Call0("Load", <<toAddr(addressOf(vb)), integer(5), toValue(Lval(vb))>>),
      Call0("Return", <<>>), Call0("return", <<integer(0)>>)>>
OrigTok(n) == Call0("orig", <<integer(n)>>)

\* the first statement of f is the one instruction i
FirstIs(f, k) ==
    /\ IsPlain(f)
    /\ f.body[1].k = "Instr"
    /\ Len(f.body[1].instrs) = 1
    /\ f.body[1].instrs[1].k = k
TheInstr == TheFun.body[1].instrs[1]

SetsXToBinOp(f) ==
    /\ FirstIs(f, "Set")
    /\ f.body[1].instrs[1].lv[1] = vx
    /\ f.body[1].instrs[1].e[1].k = "BinOp"
    /\ ~isPointerOp(f.body[1].instrs[1].e[1].op)

\* x = e1 op e2 has left the calls of e1 (s1), those of e2 (s2), Apply2
\* and the Store to x, and then the assignment itself
BinOpEmitted(o, e, s1, s2) ==
    Shape(BodyToks(o)) =
        s1 \o s2
        \o <<Call0("Apply2", <<integer(binaryOpCode(e.op)), toType(typeOf(e)), toValue(e)>>),
             Call0("Store", <<toAddr(addressOf(vx))>>),
             OrigTok(1)>>
        \o ReturnB
C7_OperandsThenApply2 ==
    (Visited /\ SetsXToBinOp(TheFun)) =>
        BinOpEmitted(TheOut, TheInstr.e[1],
                     Shape(instrumentExpr(TheInstr.e[1].kids[1], 0, ord).calls),
                     Shape(instrumentExpr(TheInstr.e[1].kids[2], 0, ord).calls))

\* the ids of x = e1 op e2, e1 leaving n1 calls and e2 n2: consecutive
\* numbers, the Store the last of them; drawn left to right they rise
\* with the calls, drawn right to left Apply2 has the first of them, the
\* calls of e2 the next ones and the calls of e1 the ones after those
IdsAsEvaluated(ids, n1, n2, o) ==
    /\ SeqSet(ids) = (ids[Len(ids)] - (Len(ids) - 1))..ids[Len(ids)]
    /\ o = "LR" => \A j \in 1..Len(ids) : ids[j] = ids[1] + j - 1
    /\ o = "RL" =>
           /\ ids[n1 + n2 + 1] = ids[Len(ids)] - (Len(ids) - 1)
           /\ \A i \in 1..n1 : \A j \in (n1 + 1)..(n1 + n2) :
                  ids[n1 + n2 + 1] < ids[j] /\ ids[j] < ids[i]
BinOpIds(o, n1, n2) == IdsAsEvaluated(Ids(BodyFirst(o, n1 + n2 + 2)), n1, n2, ord)
C7_IdsOfBinOp ==
    (Visited /\ SetsXToBinOp(TheFun)) =>
        BinOpIds(TheOut, Len(instrumentExpr(TheInstr.e[1].kids[1], 0, ord).calls),
                 Len(instrumentExpr(TheInstr.e[1].kids[2], 0, ord).calls))

\* scenario S1: x = 3 + 4
IsS1(f) == FirstIs(f, "Set") /\ f.body[1].instrs[1] = Set(vx, BinOp("PlusA", k3, k4, intType))
S1Calls ==
    <<Call0("Load", <<toAddr(zero), integer(5), toValue(k3)>>),
      Call0("Load", <<toAddr(zero), integer(5), toValue(k4)>>),
      Call0("Apply2", <<integer(0), integer(5), toValue(BinOp("PlusA", k3, k4, intType))>>),
      Call0("Store", <<toAddr(addressOf(vx))>>)>>
S1Ids == Ids(BodyFirst(TheOut, Len(S1Calls)))

\* C7 as stated: for x = e1 op e2, op not a pointer operation, the calls
\* are those of e1, then those of e2, then Apply2(op code, type, e1 op e2);
\* and for x = 3 + 4 they are Load 3, Load 4, Apply2(ADD, INT, 3 + 4),
\* Store(&x), with the ids n, n+1, n+2, n+3 in that order.
C7_IdsInEmissionOrder ==
    /\ C7_OperandsThenApply2
    /\ (Visited /\ IsS1(TheFun)) =>
           /\ Shape(BodyFirst(TheOut, Len(S1Calls))) = S1Calls
           /\ \A j \in 1..Len(S1Calls) : S1Ids[j] = S1Ids[1] + j - 1

\* C7, amended: the order of the calls is as stated; the ids of the calls
\* of x = e1 op e2 are consecutive numbers and the Store carries the last
\* one, but the calls of the right-hand side draw their ids in the order
\* in which the build evaluates the operands of @, which need not be the
\* order of the calls: for x = 3 + 4 with the ids n..n+3, drawn left to
\* right they are n, n+1, n+2, n+3, drawn right to left Load 3 has n+2,
\* Load 4 has n+1, Apply2 has n and Store has n+3.
C7_IdsInEvaluationOrder ==
    /\ C7_OperandsThenApply2
    /\ C7_IdsOfBinOp
    /\ (Visited /\ IsS1(TheFun)) =>
           /\ Shape(BodyFirst(TheOut, Len(S1Calls))) = S1Calls
           /\ S1Ids = IF ord = "LR"
                      THEN <<S1Ids[4] - 3, S1Ids[4] - 2, S1Ids[4] - 1, S1Ids[4]>>
                      ELSE <<S1Ids[4] - 1, S1Ids[4] - 2, S1Ids[4] - 3, S1Ids[4]>>

\* x = 3 + 4 has been instrumented by a build that evaluates right to left
C7_Witness == Visited /\ IsS1(TheFun) /\ ord = "RL" /\ S1Ids[3] < S1Ids[1]
\* and so has x = a * 3 + (char) *p, whose operands leave several calls
C7_WitnessNested ==
    /\ Visited /\ SetsXToBinOp(TheFun) /\ ord = "RL"
    /\ TheInstr.e[1].kids[1].k = "BinOp" /\ TheInstr.e[1].kids[2].k = "CastE"

\* the place of the token fn of statement sid
Pos(toks, fn, sid) == CHOOSE i \in 1..Len(toks) : toks[i].fn = fn /\ toks[i].id = sid

\* the if statement s, its condition leaving the calls cond, is preceded
\* by them; each of its blocks starts with the Branch call of the sid its
\* first statement has in the CFG, flag 1 for the true block and 0 for the
\* false one; and the pair recorded for s has the two bids
IfEmitted(toks, s, cond, pairs) ==
    /\ Pos(toks, "if", s.sid) > Len(cond)
    /\ Shape(SubSeq(toks, Pos(toks, "if", s.sid) - Len(cond), Pos(toks, "if", s.sid) - 1)) = cond
    /\ Pos(toks, "then", s.sid) = Pos(toks, "if", s.sid) + 1
    /\ Shape(<<toks[Pos(toks, "then", s.sid) + 1]>>)
           = <<Call0("Branch", <<integer(s.b1[1].sid), integer(1)>>)>>
    /\ Shape(<<toks[Pos(toks, "else", s.sid) + 1]>>)
           = <<Call0("Branch", <<integer(s.b2[1].sid), integer(0)>>)>>
    /\ Occurrences(pairs, <<toks[Pos(toks, "then", s.sid) + 1].args[1].n,
                            toks[Pos(toks, "else", s.sid) + 1].args[1].n>>) = 1
    /\ Len(pairs) = Cardinality({i \in 1..Len(toks) : toks[i].fn = "if"})

\* C5: for every if statement of a function the visitor enters, the calls
\* left are those of the condition, then Branch(first sid of the true
\* block, 1) at the head of the true block and Branch(first sid of the
\* false block, 0) at the head of the false block, the sids being those
\* the first statements have in the CFG, computed before the calls were
\* put there; the pair recorded for the statement has the two bids.
C5_BranchCalls ==
    (Visited /\ ~TheFun.skip) =>
        \A s \in SeqSet(IfsOf(TheFun.body)) :
            IfEmitted(TheOut.toks, s, Shape(instrumentExpr(s.e[1], 0, ord).calls),
                      TheRun.curBranches)

\* an if statement within an if statement, and one whose false block is
\* the empty statement the normalization has put there
C5_Witness ==
    /\ Visited /\ ~TheFun.skip
    /\ Len(IfsOf(TheFun.body)) = 2
    /\ \E s \in SeqSet(IfsOf(TheFun.body)) : s.b2 = <<[mkEmptyStmt EXCEPT !.sid = s.b2[1].sid, !.succs = s.b2[1].succs]>>

\* the calls of the arguments of symbolic type, first argument first
RECURSIVE ArgCalls(_, _)
ArgCalls(args, o) ==
    IF args = <<>> THEN <<>>
    ELSE (IF isSymbolicType(typeOf(Head(args)))
          THEN Shape(instrumentExpr(Head(args), 0, o).calls)
          ELSE <<>>)
         \o ArgCalls(Tail(args), o)

\* what follows the call i: the return value taken from the callee and
\* stored, or the stack cleared
AfterCall(i) ==
    IF i.lv # <<>> /\ isSymbolicType(typeOfLval(i.lv[1])) /\ hasAddress(i.lv[1])
    THEN <<Call0("HandleReturn", <<toType(typeOfLval(i.lv[1])), toValue(Lval(i.lv[1]))>>),
           Call0("Store", <<toAddr(addressOf(i.lv[1]))>>)>>
    ELSE <<Call0("ClearStack", <<>>)>>

CallsUnskipped(f) == FirstIs(f, "Call") /\ ~(f.body[1].instrs[1].direct /\ f.body[1].instrs[1].fskip)
CallsSkipped(f) == FirstIs(f, "Call") /\ f.body[1].instrs[1].direct /\ f.body[1].instrs[1].fskip

\* C8: for a call ret = f(args) of a function that is not marked
\* crest_skip the calls left are those of each argument of symbolic type,
\* left to right, then the call itself, then either HandleReturn(type of
\* ret, ret) and Store(&ret), when ret is an lvalue of symbolic type with
\* an address, or else ClearStack(), and nothing more.
C8_CallSequence ==
    (Visited /\ CallsUnskipped(TheFun)) =>
        Shape(BodyToks(TheOut))
            = ArgCalls(TheInstr.args, ord) \o <<OrigTok(1)>> \o AfterCall(TheInstr) \o ReturnB

\* a call with three arguments, the second a struct, whose value goes to x
C8_WitnessStored ==
    /\ Visited /\ CallsUnskipped(TheFun)
    /\ Len(TheInstr.args) = 3 /\ ~isSymbolicType(typeOf(TheInstr.args[2]))
    /\ TheInstr.lv = <<vx>>
\* calls whose return value is dropped, is a struct or goes to a bit-field
C8_WitnessCleared ==
    /\ Visited /\ CallsUnskipped(TheFun)
    /\ TheInstr.lv = <<sBf>>
    /\ TheInstr.args # <<>>

\* C9: a function marked crest_skip is left as it is: no call is put into
\* it, it takes no function id and no instrumentation id, and no branch
\* pair is recorded for it; a call of such a function from a function the
\* visitor enters gets no call before or after it; and every call the
\* visitor builds is a call of a function marked crest_skip.
C9_SkipUntouched ==
    /\ (Visited /\ TheFun.skip) =>
           /\ \A j \in 1..Len(TheOut.toks) : ~IsRuntimeCall(TheOut.toks[j])
           /\ Shape(TheOut.toks) = Shape(unvisitedBlock(TheFun.body))
           /\ TheOut.fid = 0
           /\ TheRun.funCount = TheRun.loaded.funcount
           /\ TheRun.pc = "visited" => TheRun.idCount = TheRun.loaded.idcount
           /\ TheRun.curBranches = <<>> /\ TheRun.branches = <<>>
           /\ TheRun.pc = "done" => TheRun.brLines = <<>>
    /\ (Visited /\ CallsSkipped(TheFun)) =>
           Shape(BodyToks(TheOut)) = <<OrigTok(1)>> \o ReturnB
    /\ Visited =>
           \A j \in 1..Len(TheOut.toks) :
               IsRuntimeCall(TheOut.toks[j]) => TheOut.toks[j].skip
    /\ \A j \in 1..Len(TheRun.init) : TheRun.init[j].skip

\* a function marked crest_skip, with parameters and an if statement, has
\* gone through a whole run
C9_WitnessFunction ==
    /\ TheRun.pc = "done" /\ TheRun.brOk
    /\ TheFun.skip /\ ~TheFun.varargs
    /\ TheFun.formals # <<>> /\ IfsOf(TheFun.body) # <<>>
\* a call with arguments of a function marked crest_skip, its value going to x
C9_WitnessCall ==
    /\ Visited /\ CallsSkipped(TheFun)
    /\ TheInstr.lv = <<vx>> /\ Len(TheInstr.args) = 3

\* the Stores pop what the caller has pushed: pushed holds the parameters
\* of symbolic type for which a value is on the stack, the last one on top
RECURSIVE PopsOwn(_, _)
PopsOwn(stores, pushed) ==
    IF stores = <<>> THEN pushed = <<>>
    ELSE /\ pushed # <<>>
         /\ Head(stores) = Call0("Store",
                <<toAddr(addressOf(Var(pushed[Len(pushed)].name, pushed[Len(pushed)].ty)))>>)
         /\ PopsOwn(Tail(stores), SubSeq(pushed, 1, Len(pushed) - 1))
SymbolicFormals(f) == SelectSeq(f.formals, LAMBDA v : v.ty.t \in {"TInt", "TPtr", "TEnum"})
EntryStores(toks, n) == Shape(SubSeq(toks, 2, 1 + n))

\* C10: the first call in a function the visitor enters is Call(fid), fid
\* the id of the function; unless the function is variadic there follows
\* one Store(&param) for each parameter of symbolic type, in reverse order
\* of declaration, so that with one value pushed per argument of symbolic
\* type, left to right, each Store pops the value of its own parameter,
\* and no other Store follows; in a variadic function no Store follows.
C10_FunctionEntry ==
    (Visited /\ ~TheFun.skip) =>
        /\ Shape(<<TheOut.toks[1]>>) = <<Call0("Call", <<integer(TheRun.loaded.funcount + 1)>>)>>
        /\ TheOut.fid = TheRun.loaded.funcount + 1
        /\ ~TheFun.varargs =>
               /\ PopsOwn(EntryStores(TheOut.toks, Len(SymbolicFormals(TheFun))),
                          SymbolicFormals(TheFun))
               /\ TheOut.toks[2 + Len(SymbolicFormals(TheFun))].fn # "Store"
        /\ TheFun.varargs => TheOut.toks[2].fn # "Store"

\* a function with two parameters of symbolic type around one that is not
C10_WitnessStores ==
    /\ Visited /\ ~TheFun.skip /\ ~TheFun.varargs
    /\ Len(TheFun.formals) = 3 /\ Len(SymbolicFormals(TheFun)) = 2
    /\ ~isSymbolicType(TheFun.formals[2].ty)
    /\ TheRun.loaded.funcount > 0
\* a variadic function with parameters of symbolic type
C10_WitnessVariadic ==
    /\ Visited /\ ~TheFun.skip /\ TheFun.varargs
    /\ SymbolicFormals(TheFun) # <<>>

(***************************************************************************)
(* Assignments.                                                            *)
(***************************************************************************)
AssignsTo(f) == FirstIs(f, "Set")
WriteEmitted(o, lv, e) ==
    Shape(BodyToks(o)) =
        Shape(instrumentLvalueAddr(lv, 0, ord).calls)
        \o Shape(instrumentExpr(e, 0, ord).calls)
        \o <<Call0("Write", <<toAddr(addressOf(lv))>>), OrigTok(1)>>
        \o ReturnB
StoreEmitted(o, lv, e) ==
    Shape(BodyToks(o)) =
        Shape(instrumentExpr(e, 0, ord).calls)
        \o <<Call0("Store", <<toAddr(addressOf(lv))>>), OrigTok(1)>>
        \o ReturnB
NothingEmitted(o) == Shape(BodyToks(o)) = <<OrigTok(1)>> \o ReturnB

\* the visitor has come to the assignment that is the first statement of
\* the function: it has left its tokens, or it has raised invalid_arg
AtAssignment ==
    /\ TheRun.file.funs # <<>>
    /\ Visited \/ TheRun.failedAt = "visited"
    /\ AssignsTo(TheFun)
NeitherCase(lv, e) ==
    \/ ~hasAddress(lv)
    \/ ~isSymbolicLvalue(lv) /\ ~isSymbolicType(typeOf(e))

\* lv = e, lv with an address that may be symbolic: the calls of the
\* address of lv, those of e, Write(&lv)
C11_WriteCase ==
    (Visited /\ AssignsTo(TheFun)
        /\ hasAddress(TheInstr.lv[1]) /\ isSymbolicLvalue(TheInstr.lv[1])) =>
        WriteEmitted(TheOut, TheInstr.lv[1], TheInstr.e[1])
\* lv = e, lv with an address that is not symbolic, e of symbolic type:
\* the calls of e, Store(&lv)
C11_StoreCase ==
    (Visited /\ AssignsTo(TheFun)
        /\ hasAddress(TheInstr.lv[1]) /\ ~isSymbolicLvalue(TheInstr.lv[1])
        /\ isSymbolicType(typeOf(TheInstr.e[1]))) =>
        StoreEmitted(TheOut, TheInstr.lv[1], TheInstr.e[1])
\* lv = e in neither case: the visitor goes on and leaves no call
C11_NoCallCase ==
    (AtAssignment /\ NeitherCase(TheInstr.lv[1], TheInstr.e[1])) =>
        Visited /\ NothingEmitted(TheOut)

\* C11: for an assignment lv = e, lv with an address: if the address of lv
\* may be symbolic (a dereference or an index) the calls are those of the
\* address of lv, those of e, Write(&lv); if it is not and e is of
\* symbolic type they are those of e, Store(&lv); an assignment in neither
\* case (lv without an address, or lv with an address that is not symbolic
\* and e not of symbolic type) leaves no call.
C11_AssignmentCalls == C11_WriteCase /\ C11_StoreCase /\ C11_NoCallCase

\* s = s of a struct s has left Load(&s, aggregate, sizeof s) and Store(&s)
C11_StructCopied ==
    /\ Visited /\ AssignsTo(TheFun)
    /\ TheInstr = Set(vs, Lval(vs))
    /\ StoreEmitted(TheOut, vs, Lval(vs))
\* d = d of a double d has ended the pass
C11_DoubleRaises ==
    /\ AtAssignment /\ TheInstr.lv[1] = vd /\ TheInstr.e[1] = Lval(vd)
    /\ TheRun.failedAt = "visited"

(***************************************************************************)
(* The operator code of PtrApply2.  The runtime's pointer_op_t, and the    *)
(* codes it allows for each pointer computation of the pass.               *)
(***************************************************************************)
ADD_PI == 0
S_ADD_PI == 1
SUBTRACT_PI == 2
S_SUBTRACT_PI == 3
SUBTRACT_PP == 4

\* the pointer computation that ends the calls of e: a pointer operator,
\* or the last offset of the lvalue whose address is taken
PtrKind(e) ==
    CASE e.k = "BinOp" /\ isPointerOp(e.op) -> e.op
      [] e.k = "AddrOf" /\ lastOffset(e.lv[1]).k \in {"Index", "Field"} ->
           lastOffset(e.lv[1]).k
      [] OTHER -> "none"
pointer_op_t(kind) ==
    CASE kind \in {"Index", "Field", "IndexPI"} -> {ADD_PI}
      [] kind = "PlusPI"  -> {ADD_PI, S_ADD_PI}
      [] kind = "MinusPI" -> {SUBTRACT_PI, S_SUBTRACT_PI}
      [] kind = "MinusPP" -> {SUBTRACT_PP}
\* the size argument: the element for an index and for pointer arithmetic,
\* one for a field
PtrSize(e) ==
    CASE PtrKind(e) = "Index" -> sizeOf(typeOfLval(e.lv[1]))
      [] PtrKind(e) = "Field" -> integer(1)
      [] OTHER -> integer(typeOf(e.kids[1]).bsize)

SetsXToPtr(f) ==
    /\ FirstIs(f, "Set")
    /\ f.body[1].instrs[1].lv[1] = vx
    /\ PtrKind(f.body[1].instrs[1].e[1]) # "none"
\* x = e: the call that ends the calls of e, right before Store(&x)
LastOfExpr(o, e) == Shape(BodyToks(o))[Len(instrumentExpr(e, 0, ord).calls)]

C12_IsPtrApply2 ==
    (Visited /\ SetsXToPtr(TheFun)) =>
        /\ LastOfExpr(TheOut, TheInstr.e[1]).fn = "PtrApply2"
        /\ Shape(BodyToks(TheOut))[Len(instrumentExpr(TheInstr.e[1], 0, ord).calls) + 1]
             = Call0("Store", <<toAddr(addressOf(vx))>>)
C12_SizeArgument ==
    (Visited /\ SetsXToPtr(TheFun)) =>
        /\ LastOfExpr(TheOut, TheInstr.e[1]).args[2] = PtrSize(TheInstr.e[1])
        /\ LastOfExpr(TheOut, TheInstr.e[1]).args[3] =
             toValue(IF TheInstr.e[1].k = "AddrOf"
                     THEN addressOf(TheInstr.e[1].lv[1]) ELSE TheInstr.e[1])
C12_OpCode ==
    (Visited /\ SetsXToPtr(TheFun)) =>
        /\ LastOfExpr(TheOut, TheInstr.e[1]).args[1].a = "integer"
        /\ LastOfExpr(TheOut, TheInstr.e[1]).args[1].n
             \in pointer_op_t(PtrKind(TheInstr.e[1]))
\* what the pass emits instead: the one code of binaryOpCode's last case
C12_OneCodeForAll ==
    (Visited /\ SetsXToPtr(TheFun)) =>
        LastOfExpr(TheOut, TheInstr.e[1]).args[1] = integer(binaryOpCode("IndexPI"))

\* C12: the PtrApply2 call of an index or field address computation carries
\* the code ADD_PI; the PtrApply2 call of p + i, p - i and p - q carries the
\* code of that pointer operation (ADD_PI, SUBTRACT_PI, SUBTRACT_PP or the
\* signed variant), and its size argument is the size of the element.
C12_PtrApply2Codes == C12_IsPtrApply2 /\ C12_OpCode /\ C12_SizeArgument

C12_MinusPPAsIndex ==
    /\ TheRun.file.funs # <<>>
    /\ Visited /\ SetsXToPtr(TheFun)
    /\ TheInstr.e[1] = BinOp("MinusPP", Lval(vp), Lval(vp), intType)
    /\ LastOfExpr(TheOut, TheInstr.e[1]) =
         Call0("PtrApply2", <<integer(binaryOpCode("IndexPI")), integer(4),
                              toValue(TheInstr.e[1])>>)
C12_FieldAddress ==
    /\ TheRun.file.funs # <<>>
    /\ Visited /\ SetsXToPtr(TheFun)
    /\ TheInstr.e[1] = AddrOf(sF)
    /\ LastOfExpr(TheOut, TheInstr.e[1]).args[2] = integer(1)

(***************************************************************************)
(* The call that reads a value: x = lv, lv with an address.                *)
(***************************************************************************)
isAggregateType(ty) == ty.t \in {"TArray", "TComp"}
SetsXToLval(f) ==
    /\ FirstIs(f, "Set")
    /\ f.body[1].instrs[1].lv[1] = vx
    /\ f.body[1].instrs[1].e[1].k = "Lval"
    /\ hasAddress(f.body[1].instrs[1].e[1].lv[1])
\* the calls of e in the output
ExprToks(o, e) == SubSeq(Shape(BodyToks(o)), 1, Len(instrumentExpr(e, 0, ord).calls))

C13_Aggregate ==
    (Visited /\ SetsXToLval(TheFun) /\ isAggregateType(typeOf(TheInstr.e[1]))) =>
        /\ LastOfExpr(TheOut, TheInstr.e[1]) =
             Call0("LoadAggr", <<toAddr(addressOf(TheInstr.e[1].lv[1])),
                                 toType(typeOf(TheInstr.e[1])),
                                 sizeOf(typeOf(TheInstr.e[1]))>>)
        /\ LastOfExpr(TheOut, TheInstr.e[1]).fn \notin {"Load", "Deref"}
\* Load, or Deref when the address of lv is symbolic; third is the argument
\* after the address and the type code
ReadEmitted(o, e, third) ==
    LastOfExpr(o, e) =
        Call0(IF isSymbolicLvalue(e.lv[1]) THEN "Deref" ELSE "Load",
              <<toAddr(addressOf(e.lv[1])), toType(typeOf(e)), third>>)
C13_AggregateAsLoad ==
    (Visited /\ SetsXToLval(TheFun) /\ isAggregateType(typeOf(TheInstr.e[1]))) =>
        ReadEmitted(TheOut, TheInstr.e[1], sizeOf(typeOf(TheInstr.e[1])))
C13_Scalar ==
    (Visited /\ SetsXToLval(TheFun) /\ isSymbolicType(typeOf(TheInstr.e[1]))) =>
        ReadEmitted(TheOut, TheInstr.e[1], toValue(TheInstr.e[1]))
\* no LoadAggr is ever emitted
C13_NeverLoadAggr ==
    \A i \in 1..Len(TheRun.out) : \A j \in 1..Len(TheRun.out[i].toks) :
        TheRun.out[i].toks[j].fn # "LoadAggr"

C13_StructDereferenced ==
    /\ TheRun.file.funs # <<>>
    /\ Visited /\ SetsXToLval(TheFun)
    /\ TheInstr.e[1] = Lval(derefQ)
    /\ LastOfExpr(TheOut, TheInstr.e[1]).fn = "Deref"

(***************************************************************************)
(* Properties of the expression algebra.                                   *)
(***************************************************************************)
RECURSIVE BitOrByte(_, _)
BitOrByte(a, b) ==
    IF a = 0 THEN b
    ELSE IF b = 0 THEN a
    ELSE 2 * BitOrByte(a \div 2, b \div 2) + (IF a % 2 = 1 \/ b % 2 = 1 THEN 1 ELSE 0)
\* w1 | w2
BitOr(w1, w2) == [j \in Bytes |-> BitOrByte(w1[j], w2[j])]
\* w << 8*k on 64 bits, as arithmetic has it
Shl(w, k) == [j \in Bytes |-> IF j <= k THEN 0 ELSE w[j - k]]
\* w is the value of an unsigned number of size bytes
Truncated(w, size) == \A j \in Bytes : j > size => w[j] = 0
\* w cut to its size low bytes
Truncate(w, size) == [j \in Bytes |-> IF j <= size THEN w[j] ELSE 0]

Concatenated == sym.cat # <<>>
E1 == sym.e1[1]
E2 == sym.e2[1]
TheCat == sym.cat[1]

C14_Node ==
    Concatenated =>
        /\ TheCat.tag = kBinaryNodeTag
        /\ TheCat.op = CONCAT
        /\ TheCat.size = E1.size + E2.size
        /\ sym.big => TheCat.left = E1 /\ TheCat.right = E2
        /\ ~sym.big => TheCat.left = E2 /\ TheCat.right = E1
C14_Value ==
    Concatenated => TheCat.value = BitOr(Shl(E1.value, E2.size), E2.value)
\* the sum of the code is the | of the claim when the low operand is
\* within its size and is shifted by less than 64 bits
C14_ValueOfTruncated ==
    (Concatenated /\ Truncated(E2.value, E2.size) /\ E2.size < WordBytes)
        => TheCat.value = BitOr(Shl(E1.value, E2.size), E2.value)

\* C14: Concatenate(e1, e2) is a binary CONCAT node of size
\* size(e1) + size(e2) and of value (value(e1) << 8*size(e2)) | value(e2),
\* for every 64-bit value of e1 and e2, negative ones too; its children are
\* (e1, e2) on a big-endian build and (e2, e1) on a little-endian one.
C14_Concatenate == C14_Node /\ C14_Value

C14_NegativeLow ==
    /\ Concatenated
    /\ E1 = NewConcreteExpr(1, Word(1))
    /\ E2 = NewConcreteExpr(1, Word(-1))
    /\ TheCat.value = Word(255)
    /\ BitOr(Shl(E1.value, E2.size), E2.value) = Word(-1)

Extracted == sym.pc = "extracted"
TheSlice == sym.ex[1]
\* x has the size of e and the value of e cut to that size
IsSlice(x, e) == x.size = e.size /\ x.value = Truncate(e.value, e.size)
SmallSizes == E1.size \in {1, 2, 4} /\ E2.size \in {1, 2, 4}

C15_First ==
    (Extracted /\ SmallSizes /\ sym.at = <<0, E1.size>>) => IsSlice(TheSlice, E1)
C15_Second ==
    (Extracted /\ SmallSizes /\ sym.at = <<E1.size, E2.size>>) => IsSlice(TheSlice, E2)
\* the slice is always a binary EXTRACT node of the size asked for, over
\* the expression and the index
C15_Node ==
    Extracted =>
        /\ TheSlice.tag = kBinaryNodeTag /\ TheSlice.op = EXTRACT
        /\ TheSlice.left = TheCat
        /\ TheSlice.size = sym.at[2]
\* what the slices are for operands within their sizes and slices of less
\* than 4 bytes: on big-endian e1 is at 0 and e2 behind it, on little-endian
\* e2 is at 0 and e1 behind it
C15_AsBuilt ==
    (Extracted /\ Truncated(E1.value, E1.size) /\ Truncated(E2.value, E2.size)
       /\ E1.size < 4 /\ E2.size < 4) =>
        /\ (sym.big /\ sym.at = <<0, E1.size>>) => IsSlice(TheSlice, E1)
        /\ (sym.big /\ sym.at = <<E1.size, E2.size>>) => IsSlice(TheSlice, E2)
        /\ (~sym.big /\ sym.at = <<0, E2.size>>) => IsSlice(TheSlice, E2)
        /\ (~sym.big /\ sym.at = <<E2.size, E1.size>>) => IsSlice(TheSlice, E1)

\* C15: for e1 and e2 of sizes 1, 2 or 4 and aligned offsets,
\* ExtractBytes(Concatenate(e1, e2), 0, size(e1)) is equal to e1, with the
\* value of e1 cut to size(e1) bytes, and the slice behind it is equal to
\* e2, on little-endian and on big-endian.
C15_ExtractOfConcatenate == C15_First /\ C15_Second

C15_LittleEndianLow ==
    /\ Extracted /\ ~sym.big
    /\ E1 = NewConcreteExpr(1, Word(171)) /\ E2 = NewConcreteExpr(1, Word(1))
    /\ sym.at = <<0, 1>>
    /\ TheSlice.value = Word(1)
C15_FourBytesLost ==
    /\ Extracted /\ sym.big /\ sym.ub = "wrap"
    /\ E1 = NewConcreteExpr(4, Word(305419896)) /\ E2 = NewConcreteExpr(4, Word(1))
    /\ sym.at = <<0, 4>>
    /\ TheSlice.value = Word(0)

Serialized == sym.pc \in {"serialized", "parsed"}
Parsed == sym.pc = "parsed"
TheParse == sym.parsed[1]
\* the whole of the bytes was in the stream
Whole == sym.at = <<Len(sym.wire)>>
\* the expression that was serialized
TheSource == IF sym.cat = <<>> THEN E1 ELSE TheCat

\* the bytes of a concrete expression: value, size, tag
C16_Bytes ==
    (Serialized /\ IsConcrete(TheSource)) =>
        /\ Len(sym.wire) = WordBytes + WordBytes + 1
        /\ SubSeq(sym.wire, 1, WordBytes) = TheSource.value
        /\ SubSeq(sym.wire, WordBytes + 1, WordBytes + WordBytes) = Word(TheSource.size)
        /\ sym.wire[WordBytes + WordBytes + 1] = kConstNodeTag
\* C16: for every Concrete(size, value), Parse of the bytes that Serialize
\* produced (8 bytes of value, 8 bytes of size, the tag 5, no payload) gives
\* a Concrete node of the same size and value, Equal to the original in both
\* directions, and has consumed exactly these bytes.
C16_RoundTrip ==
    /\ C16_Bytes
    /\ (Parsed /\ Whole /\ IsConcrete(TheSource)) =>
          /\ TheParse.e # <<>> /\ ~TheParse.exited
          /\ IsConcrete(TheParse.e[1])
          /\ TheParse.e[1].size = TheSource.size
          /\ TheParse.e[1].value = TheSource.value
          /\ Equals(TheSource, TheParse.e[1]) /\ Equals(TheParse.e[1], TheSource)
          /\ TheParse.s.pos = Len(sym.wire) /\ ~TheParse.s.fail
          /\ TheParse.lost = 0

C16_NegativeParsed ==
    /\ Parsed /\ Whole
    /\ TheSource = NewConcreteExpr(2, Word(-86))
    /\ TheParse.e = <<TheSource>>
    /\ TheParse.s.pos = WordBytes + WordBytes + 1

\* C17: for every stream that holds a proper prefix of the bytes of an
\* expression, Parse returns NULL, the process is not ended, and every
\* node allocated during the parse has been deleted.
C17_ShortRead ==
    (Parsed /\ ~Whole) =>
        /\ TheParse.e = <<>>
        /\ ~TheParse.exited
        /\ TheParse.lost = 0
\* a read that ends inside the value or the size, or before the operator
\* byte of a binary node, returns NULL and loses nothing
C17_ShortHead ==
    (Parsed /\ sym.at[1] < WordBytes + WordBytes) =>
        TheParse = Null(TheParse.s, 0) /\ TheParse.s.fail

\* the bytes end right before the tag: get() gives EOF, no case of the
\* switch is taken, and the default case calls exit(1)
C17_ExitAtTag ==
    /\ Parsed /\ IsConcrete(TheSource)
    /\ sym.at = <<WordBytes + WordBytes>>
    /\ TheParse.exited
\* the bytes end inside the right child: NULL, and the left child is lost
C17_LeftChildLost ==
    /\ Parsed /\ ~IsConcrete(TheSource) /\ ~Whole
    /\ TheParse.e = <<>> /\ ~TheParse.exited
    /\ TheParse.lost = 1

(***************************************************************************)
(* The truth value of a condition in C.  A value is a number, or the NaN   *)
(* of a floating-point type; a variable is read from env.  Every           *)
(* comparison with a NaN is false, except != which is true; a NaN is not   *)
(* zero.                                                                   *)
(***************************************************************************)
Num(n) == [nan |-> FALSE, v |-> n]
NaN == [nan |-> TRUE, v |-> 0]
IsTrue(x) == x.nan \/ x.v # 0
Holds(op, x, y) ==
    IF x.nan \/ y.nan THEN op = "Ne"
    ELSE CASE op = "Eq" -> x.v = y.v  [] op = "Ne" -> x.v # y.v
           [] op = "Lt" -> x.v < y.v  [] op = "Ge" -> x.v >= y.v
           [] op = "Le" -> x.v <= y.v [] op = "Gt" -> x.v > y.v
RECURSIVE Eval(_, _)
Eval(e, env) ==
    CASE e.k = "Const" -> Num(e.n)
      [] e.k = "Lval" -> env[e.lv[1].name]
      [] e.k = "UnOp" /\ e.op = "LNot" ->
           Num(IF IsTrue(Eval(e.kids[1], env)) THEN 0 ELSE 1)
      [] e.k = "BinOp" /\ isCompareOp(e.op) ->
           Num(IF Holds(e.op, Eval(e.kids[1], env), Eval(e.kids[2], env)) THEN 1 ELSE 0)
      \* a cast to char keeps the low byte, as a signed number
      [] e.k = "CastE" -> Num(((Eval(e.kids[1], env).v + 128) % 256) - 128)
Envs ==
    [a : {Num(n) : n \in {-1, 0, 10, 256}}, b : {Num(0), Num(1)},
     arr : {Num(0), Num(1)}, d : {NaN, Num(0), Num(2)}]
IntEnvs == {env \in Envs : ~env.d.nan}

\* the conditions of the ifs of a block, outer before inner
RECURSIVE CondsOf(_)
CondsOf(b) ==
    IF b = <<>> THEN <<>>
    ELSE (IF Head(b).k = "If"
          THEN <<Head(b).e[1]>> \o CondsOf(Head(b).b1) \o CondsOf(Head(b).b2)
          ELSE <<>>) \o CondsOf(Tail(b))

\* the claim's description of the result: k outer negations are stripped
RECURSIVE Negations(_)
Negations(c) == IF c.k = "UnOp" /\ c.op = "LNot" THEN 1 + Negations(c.kids[1]) ELSE 0
RECURSIVE Inner(_)
Inner(c) == IF c.k = "UnOp" /\ c.op = "LNot" THEN Inner(c.kids[1]) ELSE c
Negate(op) ==
    CASE op = "Eq" -> "Ne" [] op = "Ne" -> "Eq" [] op = "Lt" -> "Ge"
      [] op = "Ge" -> "Lt" [] op = "Le" -> "Gt" [] op = "Gt" -> "Le"
PredicateOf(c) ==
    LET x == Inner(c)
        odd == Negations(c) % 2 = 1
    IN  IF x.k = "BinOp" /\ isCompareOp(x.op)
        THEN BinOp(IF odd THEN Negate(x.op) ELSE x.op, x.kids[1], x.kids[2], x.ty)
        ELSE BinOp(IF odd THEN "Eq" ELSE "Ne", x, zero, intType)

\* a step of the normalization, on a file of one function
Normalizing ==
    /\ TheRun.pc = "start" /\ TheRun'.pc = "cleared"
    /\ Len(TheRun.file.funs) = 1
Before == CondsOf(TheRun.file.funs[1].body)
After == CondsOf(TheRun.file.funs[1].body)'

SameForm(c, c2) ==
    /\ c2 = PredicateOf(c)
    /\ c2.k = "BinOp" /\ isCompareOp(c2.op)
    /\ mkPredicate(c2, FALSE) = c2
SameTruth(c, c2, envs) ==
    \A env \in envs : IsTrue(Eval(c2, env)) = IsTrue(Eval(c, env))

C18_Form ==
    [][Normalizing =>
        /\ Len(After) = Len(Before)
        /\ \A i \in 1..Len(Before) : SameForm(Before[i], After[i])]_vars
C18_TruthOfNumbers ==
    [][Normalizing =>
        \A i \in 1..Len(Before) : SameTruth(Before[i], After[i], IntEnvs)]_vars

\* C18: the normalization rewrites every if condition c into a comparison
\* that has the truth value of c: with the k outer negations of c stripped,
\* a inner comparison a op b stays when k is even and becomes
\* a negate(op) b when k is odd, any other inner x becomes x != 0 when k is
\* even and x == 0 when k is odd, no cast is stripped, and normalizing the
\* result again changes nothing.
C18_Normalization ==
    [][Normalizing =>
        /\ Len(After) = Len(Before)
        /\ \A i \in 1..Len(Before) :
              SameForm(Before[i], After[i]) /\ SameTruth(Before[i], After[i], Envs)]_vars

\* !(d < 1) has become d >= 1: with d a NaN the first is true, the second
\* is false
C18_NegatedDouble ==
    /\ TheRun.file.funs # <<>>
    /\ "cleared" \in SeqSet(TheRun.steps)
    /\ CondsOf(TheFun.body) # <<>>
    /\ CondsOf(TheFun.body)[1] = BinOp("Ge", Lval(vd), Const(floatType, 1), intType)
    /\ ~IsTrue(Eval(CondsOf(TheFun.body)[1], [a |-> Num(0), b |-> Num(0), arr |-> Num(0), d |-> NaN]))
    /\ IsTrue(Eval(UnOp("LNot", dLt1, intType), [a |-> Num(0), b |-> Num(0), arr |-> Num(0), d |-> NaN]))
C18_CastKept ==
    /\ TheRun.file.funs # <<>>
    /\ "cleared" \in SeqSet(TheRun.steps)
    /\ CondsOf(TheFun.body) # <<>>
    /\ CondsOf(TheFun.body)[1] = BinOp("Eq", CastE(charType, Lval(va)), zero, intType)

(***************************************************************************)
(* The order of the steps of a pass.                                       *)
(***************************************************************************)
StepOrder ==
    <<"cleared", "loaded", "cfg", "cfgWritten", "visited", "initialized",
      "idWritten", "stmtWritten", "funWritten", "done">>
IsPrefix(s, t) == Len(s) <= Len(t) /\ s = SubSeq(t, 1, Len(s))
\* the ids of the runtime calls of the run, Init and RegGlobal included
EmittedIds(r) == SeqSet(outIds(r.out)) \cup SeqSet(runtimeIds(r.init))
RECURSIVE FirstSids(_)
FirstSids(funs) ==
    IF funs = <<>> THEN <<>>
    ELSE (IF Head(funs).body = <<>> THEN <<>> ELSE <<Head(funs).body[1].sid>>)
         \o FirstSids(Tail(funs))

C19_Order == IsPrefix(TheRun.steps, StepOrder)
\* the statement ids go on from the loaded stmtcount
C19_SidsContinue ==
    (Did(TheRun, "cfg") /\ FirstSids(TheRun.file.funs) # <<>>) =>
        FirstSids(TheRun.file.funs)[1] = TheRun.loaded.stmtcount + 1
\* nothing is written to cfg and cfg_func_map before the CFG is computed,
\* and no counter and no line of branches before the initializer is added
C19_WrittenLast ==
    /\ (TheRun.pc # "idle" /\ ~Did(TheRun, "cfgWritten")) =>
           TheRun.cfgLines = <<>> /\ TheRun.mapLines = <<>>
    /\ \A n \in CounterNames :
           (Did(TheRun, "loaded") /\ ~Did(TheRun, "initialized")) =>
               counterFile[n] = TheRun.found[n]
    /\ (TheRun.pc # "idle" /\ ~Did(TheRun, "funWritten")) => TheRun.brLines = <<>>
C19_IdsWithinCount ==
    Did(TheRun, "idWritten") =>
        /\ counterFile.idcount # <<>>
        /\ \A id \in EmittedIds(TheRun) : id <= counterFile.idcount[1]

\* C19: in every pass the steps run in this order and no other: the CFG is
\* cleared, the three counters are loaded, the CFG is computed with
\* statement ids that go on from the loaded stmtcount, cfg and cfg_func_map
\* are appended, the visitor runs, the initializer is added, and only then
\* the three counters are written and branches is flushed; so every runtime
\* call of the pass, Init and RegGlobal too, has an id that is not greater
\* than the idcount written.
C19_StepOrder == C19_Order /\ C19_SidsContinue /\ C19_WrittenLast /\ C19_IdsWithinCount

C19_WitnessDone ==
    /\ TheRun.pc = "done"
    /\ TheRun.steps = StepOrder
    /\ \E i \in 1..Len(TheRun.init) : TheRun.init[i].fn = "RegGlobal"
    /\ TheRun.init[1].fn = "Init"
    /\ TheRun.init[1].id = counterFile.idcount[1]
    /\ TheRun.loaded.stmtcount > 0

(***************************************************************************)
(* The operand stack of the runtime, as a depth: Load pushes one value,    *)
(* Apply1 and Deref take one and push one, Apply2 and PtrApply2 take two   *)
(* and push one.                                                           *)
(***************************************************************************)
Pops(fn) ==
    CASE fn = "Load" -> 0
      [] fn \in {"Apply1", "Deref"} -> 1
      [] fn \in {"Apply2", "PtrApply2"} -> 2
\* the depth after the calls cs, from the depth d; -1 once a call has
\* found fewer values than it takes
RECURSIVE DepthAfter(_, _)
DepthAfter(cs, d) ==
    IF cs = <<>> \/ d < 0 THEN d
    ELSE IF d < Pops(Head(cs).fn) THEN -1
    ELSE DepthAfter(Tail(cs), d - Pops(Head(cs).fn) + 1)
OnlyStackCalls(cs) ==
    \A i \in 1..Len(cs) : cs[i].fn \in {"Load", "Apply1", "Deref", "Apply2", "PtrApply2"}
PushesOne(cs) == OnlyStackCalls(cs) /\ DepthAfter(cs, 0) = 1

\* the lvalues whose address the visitor computes in x = e or lv = e
AddressedLvals(i) ==
    {lv \in {i.lv[1]} : hasAddress(lv) /\ isSymbolicLvalue(lv)}
    \cup (IF i.e[1].k \in {"AddrOf", "StartOf"} THEN {i.e[1].lv[1]} ELSE {})
    \cup (IF i.e[1].k = "Lval" /\ hasAddress(i.e[1].lv[1]) /\ isSymbolicLvalue(i.e[1].lv[1])
          THEN {i.e[1].lv[1]} ELSE {})

\* the calls of e are in the output, right before the Store or Write
ExprEmitted(o, i) ==
    LET cs == Shape(instrumentExpr(i.e[1], 0, ord).calls)
        as == IF isSymbolicLvalue(i.lv[1])
              THEN Shape(instrumentLvalueAddr(i.lv[1], 0, ord).calls) ELSE <<>>
    IN  SubSeq(Shape(BodyToks(o)), Len(as) + 1, Len(as) + Len(cs)) = cs

\* C20: with Load as a push, Apply1 and Deref as a pop and a push, and
\* Apply2 and PtrApply2 as two pops and a push, the calls of instrumentExpr
\* for an expression and those of instrumentLvalueAddr for an lvalue never
\* take a value that was on the stack before them, and leave one value
\* more than there was.
C20_StackDiscipline ==
    (Visited /\ AssignsTo(TheFun) /\ hasAddress(TheInstr.lv[1])) =>
        /\ ExprEmitted(TheOut, TheInstr)
        /\ PushesOne(instrumentExpr(TheInstr.e[1], 0, ord).calls)
        /\ \A lv \in AddressedLvals(TheInstr) :
              PushesOne(instrumentLvalueAddr(lv, 0, ord).calls)

C20_WitnessNested ==
    /\ TheRun.file.funs # <<>>
    /\ Visited /\ AssignsTo(TheFun)
    /\ TheInstr.lv[1] = vx
    /\ TheInstr.e[1].k = "BinOp"
    /\ Len(instrumentExpr(TheInstr.e[1], 0, ord).calls) >= 6
    /\ PushesOne(instrumentExpr(TheInstr.e[1], 0, ord).calls)
C20_WitnessAddress ==
    /\ TheRun.file.funs # <<>>
    /\ Visited /\ AssignsTo(TheFun)
    /\ TheInstr.lv[1] = arrIdx
    /\ Len(instrumentLvalueAddr(arrIdx, 0, ord).calls) = 3
    /\ PushesOne(instrumentLvalueAddr(arrIdx, 0, ord).calls)

(***************************************************************************)
(* Two runs at once.  A run holds the counters it has loaded from the      *)
(* load to its end; it persists them in three writes.                      *)
(***************************************************************************)
Loading == {"loaded", "cfg", "cfgWritten", "visited", "initialized"}
Persisting == {"idWritten", "stmtWritten", "funWritten", "done"}
HasLoaded(p) == at(p, Loading \cup Persisting)
HasIssued(p) == at(p, {"initialized"} \cup Persisting)
\* both have loaded and neither has written a counter
BothLoading == at(1, Loading) /\ at(2, Loading)
\* the runs hold the same loaded counters
Overlapped == HasLoaded(1) /\ HasLoaded(2) /\ proc[1].loaded = proc[2].loaded
\* the directory has seen no other run than these two
TwoRuns == started <= 2

Above(a, b) == (a + 1)..b
IdsOf(p)  == EmittedIds(proc[p])
SidsOf(p) == SeqSet(cfgSids(proc[p].cfgLines))
FidsOf(p) == SeqSet(outFids(proc[p].out))
Nested(A, B) == A \subseteq B \/ B \subseteq A
Loads(p) == proc[p].pc = "cleared" /\ proc'[p].pc = "loaded"
Writes(p, n) == proc[p].pc # WriteStep[n] /\ proc'[p].pc = WriteStep[n]

\* no run waits for the other: while both are between the load and the
\* first write, they hold the same counters, those still on disk
C21_NoLock ==
    (TwoRuns /\ BothLoading) =>
        /\ proc[1].loaded = proc[2].loaded
        /\ \A n \in CounterNames : proc[1].found[n] = counterFile[n]
\* a run that loads after the other has written idcount loads another
\* idcount: two runs hold the same counters only if both loaded before
\* either wrote
C21_LoadAfterWrite ==
    [][\A p, q \in Procs :
          (TwoRuns /\ Loads(p) /\ at(q, Persisting)) =>
              proc'[p].loaded # proc[q].loaded]_vars
\* the ids of each run are those above the loaded counter, so the two runs
\* give out the same ones, as far as each of them goes
C21_SameIds ==
    (Overlapped /\ HasIssued(1) /\ HasIssued(2)) =>
        /\ \A p \in Procs :
              /\ IdsOf(p)  = Above(proc[p].loaded.idcount, proc[p].idCount)
              /\ SidsOf(p) = Above(proc[p].loaded.stmtcount, proc[p].stmtCount)
              /\ FidsOf(p) = Above(proc[p].loaded.funcount, proc[p].funCount)
        /\ Nested(IdsOf(1), IdsOf(2)) /\ IdsOf(1) \cap IdsOf(2) # {}
        /\ Nested(SidsOf(1), SidsOf(2))
        /\ Nested(FidsOf(1), FidsOf(2))
        /\ proc[1].file = proc[2].file =>
              IdsOf(1) = IdsOf(2) /\ SidsOf(1) = SidsOf(2) /\ FidsOf(1) = FidsOf(2)
\* a counter file changes only when a run writes it, and then it holds
\* that run's counter, whatever it held
C21_LastWriter ==
    [][\A n \in CounterNames :
          /\ counterFile'[n] # counterFile[n] => \E p \in Procs : Writes(p, n)
          /\ \A p \in Procs :
                Writes(p, n) => counterFile'[n] = <<FinalCount(proc[p])[n]>>]_vars
\* at the end each counter file holds the counter of one of the runs
C21_EachFromOne ==
    (at(1, {"done"}) /\ at(2, {"done"})) =>
        \A n \in CounterNames : \E p \in Procs : counterFile[n] = <<FinalCount(proc[p])[n]>>
\* at the end the three files hold the counters of one run
C21_AllFromOne ==
    (Overlapped /\ at(1, {"done"}) /\ at(2, {"done"})) =>
        \E p \in Procs : \A n \in CounterNames : counterFile[n] = <<FinalCount(proc[p])[n]>>
\* a run that loads when the other has not loaded, or has written its
\* three counters, loads counters that no id given out so far exceeds
C21_SerializedLoad ==
    [][\A p, q \in Procs :
          (TwoRuns /\ p # q /\ Loads(p) /\ ~fault
             /\ ~at(q, Loading \cup {"idWritten", "stmtWritten"})) =>
              /\ \A i \in SeqSet(issued.ids)  : i <= proc'[p].loaded.idcount
              /\ \A i \in SeqSet(issued.sids) : i <= proc'[p].loaded.stmtcount
              /\ \A i \in SeqSet(issued.fids) : i <= proc'[p].loaded.funcount]_vars
\* a run that has loaded what the other one has left gives out other ids
C21_SerializedUnique ==
    \A p, q \in Procs :
        (HasIssued(p) /\ HasIssued(q) /\ proc[q].loaded = FinalCount(proc[p])) =>
            /\ IdsOf(p) \cap IdsOf(q) = {}
            /\ SidsOf(p) \cap SidsOf(q) = {}
            /\ FidsOf(p) \cap FidsOf(q) = {}

C21_WitnessMixed ==
    /\ ~fault /\ Overlapped
    /\ at(1, {"done"}) /\ at(2, {"done"})
    /\ \A p \in Procs : \E n \in CounterNames : counterFile[n] # <<FinalCount(proc[p])[n]>>
\* the second run loaded when the first had persisted: nothing twice
C21_WitnessSerialized ==
    /\ ~fault
    /\ at(1, {"done"}) /\ at(2, {"done"})
    /\ proc[2].loaded = FinalCount(proc[1])
    /\ IdsOf(2) # {} /\ SidsOf(2) # {} /\ FidsOf(2) # {}
    /\ NoDup(issued.ids) /\ NoDup(issued.sids) /\ NoDup(issued.fids)

====
